---- MODULE Spec2Model ----
(***************************************************************************)
(* Directory reconciliation engine (server/commands/userSyncer.ts): the    *)
(* local user directory is brought in line with a snapshot of the identity *)
(* provider's enabled users.  The directory (users, user authentications,  *)
(* group memberships) is the state; one reconcile call is a Start step,    *)
(* one step per existing authentication (phase 1), one step per snapshot   *)
(* entry (phase 2) and a Finish step.                                      *)
(***************************************************************************)
EXTENDS Integers, Sequences, FiniteSets, TLC

\* ------------------------------------------------------------------ bounds

\* Longest snapshot handed to the engine.
MaxSnapshot == 2
\* Most User rows the directory holds.
MaxUsers == 3
\* Most UserAuthentication rows the directory holds.
MaxAuths == 3
\* Most reconcile calls in one behaviour.
MaxCalls == 2
\* Most store operations that fail in one behaviour.
MaxFailures == 1

\* ------------------------------------------------------------------ values

Null == "null"

\* The time a suspension is stamped with (new Date()).
Now == "now"

\* Strings that are compared letter by letter are sequences of characters.
LowerChar(c) == IF c = "A" THEN "a" ELSE IF c = "B" THEN "b" ELSE c

RECURSIVE toLowerCase(_)
toLowerCase(s) ==
  IF s = <<>> THEN <<>> ELSE <<LowerChar(Head(s))>> \o toLowerCase(Tail(s))

\* Op.iLike: SQL ILIKE, the right operand is a pattern in which "_" stands
\* for any one character and "%" for any run of characters.
RECURSIVE iLike(_, _)
iLike(s, p) ==
  IF p = <<>> THEN s = <<>>
  ELSE IF Head(p) = "%"
       THEN iLike(s, Tail(p)) \/ (s /= <<>> /\ iLike(Tail(s), p))
       ELSE /\ s /= <<>>
            /\ (Head(p) = "_" \/ LowerChar(Head(s)) = LowerChar(Head(p)))
            /\ iLike(Tail(s), Tail(p))

\* String.prototype.includes on a URL kept as a sequence of its parts.
includes(url, part) == \E k \in 1..Len(url) : url[k] = part

\* JavaScript truthiness of a string or null value.
Truthy(v) == v /= Null /\ v /= ""

\* Truthiness of a string kept as a sequence: <<>> stands for "", null and
\* undefined alike, which every read in the engine treats the same.
NonEmpty(s) == s /= <<>>

\* ------------------------------------------------------------------ teams

\* Team rows: id -> defaultUserRole (null when the team sets none).
Teams == [T1 |-> "viewer", T2 |-> Null]
TeamIds == DOMAIN Teams

\* AuthenticationProvider rows: id -> teamId.
AuthenticationProviders == [P1 |-> "T1", P2 |-> "T2"]

\* The stored settings of each provider (AuthenticationProviderSettingsSchema):
\* P1 assigns newly synced users to G1, a group of its team; P2 has no
\* default group.
ProviderSettings ==
  [P1 |-> [syncDefaultGroupId |-> "G1"], P2 |-> [syncDefaultGroupId |-> Null]]
AuthProviderIds == DOMAIN AuthenticationProviders

\* Group rows: id -> [teamId, name].
Groups == [G1 |-> [teamId |-> "T1", name |-> "staff"],
           G2 |-> [teamId |-> "T2", name |-> "staff"],
           G3 |-> [teamId |-> "T1", name |-> "ops"]]
GroupIds == DOMAIN Groups

\* ------------------------------------------------------------------ rows

\* A User row.  suspendedAt = Null is an active user.
User(id, teamId, email, name, avatarUrl, role, suspendedAt, suspendedById, lastActiveAt) ==
  [id |-> id, teamId |-> teamId, email |-> email, name |-> name,
   avatarUrl |-> avatarUrl, role |-> role, suspendedAt |-> suspendedAt,
   suspendedById |-> suspendedById, lastActiveAt |-> lastActiveAt]

\* A UserAuthentication row.
UserAuthentication(providerId, authenticationProviderId, userId) ==
  [providerId |-> providerId,
   authenticationProviderId |-> authenticationProviderId,
   userId |-> userId, scopes |-> <<>>]

\* A GroupUser row.
GroupUser(userId, groupId) ==
  [userId |-> userId, groupId |-> groupId, permission |-> "member"]

\* A snapshot record.
SyncUser(providerId, email, name, avatarUrl) ==
  [providerId |-> providerId, email |-> email, name |-> name,
   avatarUrl |-> avatarUrl]

\* The report a call starts with.
UserSyncerResult ==
  [created |-> 0, updated |-> 0, suspended |-> 0, unchanged |-> 0,
   reactivated |-> 0, addedToGroup |-> 0, errors |-> <<>>]

\* ------------------------------------------------------------ error texts

EmptyListError ==
  <<"Provider returned ", "empty user list",
    " - sync aborted to prevent mass suspension">>
TeamNotFoundError(teamId) == <<"Team", " ", teamId, " ", "not found">>
ProviderNotFoundError(id) ==
  <<"Authentication provider", " ", id, " ", "not found">>
\* The message without the providerId.
NoEmailErrorAnonymous(providerId) ==
  <<"Skipping user ", "", ": ", "no email address">>

NoEmailError(providerId) ==
  <<"Skipping user ", providerId, ": ", "no email address">>
FailedError(what, email) ==
  <<"Failed to ", what, " user ", email, ": ", "store error">>

\* ------------------------------------------------------ updateUserIfNeeded

\* The three comparisons of updateUserIfNeeded: which attributes go into
\* `updates`.
nameChanged(user, providerUser) ==
  Truthy(providerUser.name) /\ user.name /= providerUser.name

\* The email comparison made case-sensitive.
emailChangedExact(user, providerUser) ==
  NonEmpty(providerUser.email) /\ user.email /= providerUser.email

emailChanged(user, providerUser) ==
  /\ NonEmpty(providerUser.email)
  /\ toLowerCase(user.email) /= toLowerCase(providerUser.email)

avatarChanged(user, providerUser) ==
  /\ NonEmpty(providerUser.avatarUrl)
  /\ user.avatarUrl /= providerUser.avatarUrl
  /\ (~NonEmpty(user.avatarUrl) \/ includes(user.avatarUrl, "keycloak"))

\* The test for an empty `updates` turned into one that always passes.
hasUpdatesAlways(user, providerUser) == TRUE

\* Object.keys(updates).length > 0
hasUpdates(user, providerUser) ==
  \/ nameChanged(user, providerUser)
  \/ emailChanged(user, providerUser)
  \/ avatarChanged(user, providerUser)

\* user.update(updates): the row `row` of the store after the attributes that
\* differ between the in-memory `user` and `providerUser` are written.
applyUpdates(row, user, providerUser) ==
  [row EXCEPT
     !.name = IF nameChanged(user, providerUser)
              THEN providerUser.name ELSE @,
     !.email = IF emailChanged(user, providerUser)
               THEN providerUser.email ELSE @,
     !.avatarUrl = IF avatarChanged(user, providerUser)
                   THEN providerUser.avatarUrl ELSE @]

\* The reactivation that clears suspendedAt only.
clearSuspendedAtOnly(row) == [row EXCEPT !.suspendedAt = Null]

\* user.update({ suspendedAt: null, suspendedById: null })
clearSuspension(row) ==
  [row EXCEPT !.suspendedAt = Null, !.suspendedById = Null]

\* user.update({ suspendedAt: new Date() })
suspendUser(row) == [row EXCEPT !.suspendedAt = Now]

\* ------------------------------------------------------------- the lookups

\* providerUsersMap.get(providerId): the map is filled in snapshot order, so a
\* later entry with the same providerId replaces an earlier one.
providerUsersMapGet(snapshot, providerId) ==
  LET idx == {k \in 1..Len(snapshot) : snapshot[k].providerId = providerId}
  IN  IF idx = {} THEN Null
      ELSE snapshot[CHOOSE k \in idx : \A j \in idx : j <= k]

\* The lookup by email without the team condition.
findUsersByEmailAnyTeam(userRows, teamId, email) ==
  {k \in 1..Len(userRows) : iLike(userRows[k].email, email)}

\* The lookup by email made case-sensitive.
findUsersByEmailExact(userRows, teamId, email) ==
  {k \in 1..Len(userRows) :
     userRows[k].teamId = teamId /\ userRows[k].email = email}

\* User.findOne({ teamId, email iLike }): the ids of the rows that match; the
\* query has no ORDER BY, so the store may return any of them.
findUsersByEmail(userRows, teamId, email) ==
  {k \in 1..Len(userRows) :
     userRows[k].teamId = teamId /\ iLike(userRows[k].email, email)}

\* UserAuthentication.findAll({ authenticationProviderId }, include User where
\* teamId, required): the positions of the rows the join keeps.
findExistingAuths(authRows, userRows, teamId, authenticationProviderId) ==
  {k \in 1..Len(authRows) :
     /\ authRows[k].authenticationProviderId = authenticationProviderId
     /\ userRows[authRows[k].userId].teamId = teamId}

\* Group.findOne by id in the team, or by name in the team when no id is given.
findDefaultGroup(teamId, defaultGroupId, defaultGroupName) ==
  LET byId == {g \in GroupIds : g = defaultGroupId /\ Groups[g].teamId = teamId}
      byName == {g \in GroupIds :
                   Groups[g].name = defaultGroupName /\ Groups[g].teamId = teamId}
  IN  IF Truthy(defaultGroupId)
      THEN (IF byId = {} THEN Null ELSE CHOOSE g \in byId : TRUE)
      ELSE IF Truthy(defaultGroupName)
           THEN (IF byName = {} THEN Null ELSE CHOOSE g \in byName : TRUE)
           ELSE Null

\* --------------------------------------------------------- per-user steps
\* A store operation of a step can fail.  f is the ordinal, among the store
\* operations the step performs, of the one that throws (0: none does); k
\* counts the operations performed before.

\* updateUserIfNeeded(user, providerUser, result[, transaction]): `row` is the
\* stored row of `user`, `user` the in-memory instance whose attributes are
\* compared.  The counter is bumped after the write, so a write that throws
\* counts nothing.
updateUserIfNeeded(row, user, providerUser, res, k, f) ==
  IF hasUpdates(user, providerUser)
  THEN IF f = k + 1
       THEN [row |-> row, result |-> res, updated |-> FALSE, threw |-> TRUE,
             k |-> k + 1]
       ELSE [row |-> applyUpdates(row, user, providerUser),
             result |-> [res EXCEPT !.updated = @ + 1],
             updated |-> TRUE, threw |-> FALSE, k |-> k + 1]
  ELSE [row |-> row, result |-> [res EXCEPT !.unchanged = @ + 1],
        updated |-> FALSE, threw |-> FALSE, k |-> k]

\* user.email as the catch block of phase 1 reads it: update() sets the new
\* values on the instance before it saves.
emailAfterSet(user, providerUser) ==
  IF emailChanged(user, providerUser) THEN providerUser.email ELSE user.email

\* Phase 1, the user's providerId is in the snapshot: update, then reactivate.
\* Neither write is in a transaction.
processMatched(userRows, res, user, providerUser, f) ==
  LET u == updateUserIfNeeded(userRows[user.id], user, providerUser, res, 0, f)
      react == ~u.threw /\ user.suspendedAt /= Null
      reactThrew == react /\ f = u.k + 1
      row == IF react /\ ~reactThrew THEN clearSuspension(u.row) ELSE u.row
      r1 == IF react /\ ~reactThrew
            THEN [u.result EXCEPT !.reactivated = @ + 1] ELSE u.result
      r2 == IF u.threw \/ reactThrew
            THEN [r1 EXCEPT !.errors =
                    Append(@, FailedError("update",
                                          emailAfterSet(user, providerUser)))]
            ELSE r1
  IN  [users |-> [userRows EXCEPT ![user.id] = row], result |-> r2,
       ops |-> u.k + (IF react THEN 1 ELSE 0)]

\* The orphan branch that counts nothing for a user already suspended.
processOrphanUncounted(userRows, res, user, f) ==
  IF user.suspendedAt = Null
  THEN IF f = 1
       THEN [users |-> userRows,
             result |-> [res EXCEPT !.errors =
                           Append(@, FailedError("suspend", user.email))],
             ops |-> 1]
       ELSE [users |-> [userRows EXCEPT ![user.id] = suspendUser(@)],
             result |-> [res EXCEPT !.suspended = @ + 1], ops |-> 1]
  ELSE [users |-> userRows, result |-> res, ops |-> 0]

\* The suspension with its failure swallowed: nothing is recorded.
processOrphanSilent(userRows, res, user, f) ==
  IF user.suspendedAt = Null
  THEN IF f = 1
       THEN [users |-> userRows, result |-> res, ops |-> 1]
       ELSE [users |-> [userRows EXCEPT ![user.id] = suspendUser(@)],
             result |-> [res EXCEPT !.suspended = @ + 1], ops |-> 1]
  ELSE [users |-> userRows, result |-> [res EXCEPT !.unchanged = @ + 1],
        ops |-> 0]

\* Phase 1, the user's providerId is not in the snapshot: suspend an active
\* user, count a suspended one as unchanged.
processOrphan(userRows, res, user, f) ==
  IF user.suspendedAt = Null
  THEN IF f = 1
       THEN [users |-> userRows,
             result |-> [res EXCEPT !.errors =
                           Append(@, FailedError("suspend", user.email))],
             ops |-> 1]
       ELSE [users |-> [userRows EXCEPT ![user.id] = suspendUser(@)],
             result |-> [res EXCEPT !.suspended = @ + 1], ops |-> 1]
  ELSE [users |-> userRows, result |-> [res EXCEPT !.unchanged = @ + 1],
        ops |-> 0]

\* One iteration of the phase-1 loop for the loaded pair (providerId, user).
processExisting(userRows, res, snapshot, auth, f) ==
  LET providerUser == providerUsersMapGet(snapshot, auth.providerId)
  IN  IF \E k \in 1..Len(snapshot) : snapshot[k].providerId = auth.providerId
      THEN processMatched(userRows, res, auth.user, providerUser, f)
      ELSE processOrphan(userRows, res, auth.user, f)

\* The link that rewrites the providerId of an authentication the user already
\* has for the provider, instead of inserting a row.
linkExistingRewrite(userRows, authRows, res, existingUser, providerUser, authenticationProviderId, f) ==
  LET authThrew == f = 2
      u == updateUserIfNeeded(existingUser, existingUser, providerUser, res, 2, f)
      react == existingUser.suspendedAt /= Null
      reactThrew == react /\ f = u.k + 1
      k == u.k + (IF react THEN 1 ELSE 0)
      commitThrew == f = k + 1
      threw == authThrew \/ u.threw \/ reactThrew \/ commitThrew
      r1 == IF authThrew THEN res
            ELSE IF u.threw \/ reactThrew THEN u.result
            ELSE IF react THEN [u.result EXCEPT !.reactivated = @ + 1]
            ELSE IF ~u.updated THEN [u.result EXCEPT !.unchanged = @ + 1]
            ELSE u.result
      row == IF react THEN clearSuspension(u.row) ELSE u.row
      auth == UserAuthentication(providerUser.providerId,
                                 authenticationProviderId, existingUser.id)
      had == {j \in 1..Len(authRows) :
                /\ authRows[j].userId = existingUser.id
                /\ authRows[j].authenticationProviderId =
                     authenticationProviderId}
  IN  IF threw
      THEN [users |-> userRows, auths |-> authRows,
            result |-> [r1 EXCEPT !.errors =
                          Append(@, FailedError("create", providerUser.email))],
            ops |-> k + 1]
      ELSE [users |-> [userRows EXCEPT ![existingUser.id] = row],
            auths |-> IF had = {} THEN Append(authRows, auth)
                      ELSE [authRows EXCEPT ![CHOOSE j \in had : TRUE] = auth],
            result |-> r1, ops |-> k + 1]

\* Phase 2, a user of the team has the entry's email: link it.  Operation 1 was
\* the lookup; the authentication insert, the update and the reactivation share
\* one transaction, whose commit is the last operation.  A throw rolls the rows
\* back and leaves the counters already bumped.
linkExisting(userRows, authRows, res, existingUser, providerUser, authenticationProviderId, f) ==
  LET authThrew == f = 2
      u == updateUserIfNeeded(existingUser, existingUser, providerUser, res, 2, f)
      react == existingUser.suspendedAt /= Null
      reactThrew == react /\ f = u.k + 1
      k == u.k + (IF react THEN 1 ELSE 0)
      commitThrew == f = k + 1
      threw == authThrew \/ u.threw \/ reactThrew \/ commitThrew
      r1 == IF authThrew THEN res
            ELSE IF u.threw \/ reactThrew THEN u.result
            ELSE IF react THEN [u.result EXCEPT !.reactivated = @ + 1]
            ELSE IF ~u.updated THEN [u.result EXCEPT !.unchanged = @ + 1]
            ELSE u.result
      row == IF react THEN clearSuspension(u.row) ELSE u.row
  IN  IF threw
      THEN [users |-> userRows, auths |-> authRows,
            result |-> [r1 EXCEPT !.errors =
                          Append(@, FailedError("create", providerUser.email))],
            ops |-> k + 1]
      ELSE [users |-> [userRows EXCEPT ![existingUser.id] = row],
            auths |-> Append(authRows,
                             UserAuthentication(providerUser.providerId,
                                                authenticationProviderId,
                                                existingUser.id)),
            result |-> r1, ops |-> k + 1]

\* team.defaultUserRole ?? UserRole.Member
defaultRole(teamId) ==
  IF Teams[teamId] = Null THEN "member" ELSE Teams[teamId]

\* The creation without its transaction: a row inserted before the throw stays.
createNewNoTransaction(userRows, authRows, groupRows, res, providerUser, teamId, authenticationProviderId, defaultGroup, f) ==
  LET id == Len(userRows) + 1
      user == User(id, teamId, providerUser.email, providerUser.name,
                   providerUser.avatarUrl, defaultRole(teamId), Null, Null,
                   Null)
      auth == UserAuthentication(providerUser.providerId,
                                 authenticationProviderId, id)
      grouped == defaultGroup /= Null
      k == IF grouped THEN 4 ELSE 3
      threw == f \in 2..(k + 1)
      r1 == IF f \in {2, 3} THEN res ELSE [res EXCEPT !.created = @ + 1]
      r2 == IF f \in {2, 3} \/ ~grouped \/ f = 4 THEN r1
            ELSE [r1 EXCEPT !.addedToGroup = @ + 1]
  IN  [users |-> IF f = 2 THEN userRows ELSE Append(userRows, user),
       auths |-> IF f \in {2, 3} THEN authRows ELSE Append(authRows, auth),
       groupUsers |-> IF grouped /\ f \notin {2, 3, 4}
                      THEN Append(groupRows, GroupUser(id, defaultGroup))
                      ELSE groupRows,
       result |-> IF threw
                  THEN [r2 EXCEPT !.errors =
                          Append(@, FailedError("create", providerUser.email))]
                  ELSE r2,
       ops |-> k + 1]

\* Phase 2, no user of the team has the entry's email: create the user, its
\* authentication and, with a default group, its membership, in one
\* transaction.  Operation 1 was the lookup.
createNew(userRows, authRows, groupRows, res, providerUser, teamId, authenticationProviderId, defaultGroup, f) ==
  LET id == Len(userRows) + 1
      user == User(id, teamId, providerUser.email, providerUser.name,
                   providerUser.avatarUrl, defaultRole(teamId), Null, Null,
                   Null)
      grouped == defaultGroup /= Null
      insertThrew == f = 2 \/ f = 3
      groupThrew == grouped /\ f = 4
      k == IF grouped THEN 4 ELSE 3
      commitThrew == f = k + 1
      r1 == IF insertThrew THEN res ELSE [res EXCEPT !.created = @ + 1]
      r2 == IF insertThrew \/ ~grouped \/ groupThrew THEN r1
            ELSE [r1 EXCEPT !.addedToGroup = @ + 1]
  IN  IF insertThrew \/ groupThrew \/ commitThrew
      THEN [users |-> userRows, auths |-> authRows, groupUsers |-> groupRows,
            result |-> [r2 EXCEPT !.errors =
                          Append(@, FailedError("create", providerUser.email))],
            ops |-> k + 1]
      ELSE [users |-> Append(userRows, user),
            auths |-> Append(authRows,
                             UserAuthentication(providerUser.providerId,
                                                authenticationProviderId, id)),
            groupUsers |-> IF grouped
                           THEN Append(groupRows, GroupUser(id, defaultGroup))
                           ELSE groupRows,
            result |-> r2, ops |-> k + 1]

\* ------------------------------------------------------------------ state

VARIABLES
  users,       \* the User table: a sequence of rows, a row's id is its position
  auths,       \* the UserAuthentication table, in insertion order
  groupUsers,  \* the GroupUser table
  pc,          \* "idle" | "running" | "done" (returned) | "threw"
  call,        \* the arguments of the current (or last) reconcile call
  run,         \* the locals of the call: existingAuths, processedProviderIds, ...
  result,      \* the UserSyncerResult being filled
  pre,         \* the tables as they were when the current call started
  prev,        \* arguments, report and `pre` of the call before the current one
  last,        \* what the latest per-user step saw and did
  calls,       \* reconcile calls started so far
  failures     \* store operations that have thrown so far

engineVars ==
  <<users, auths, groupUsers, pc, call, run, result, pre, prev, last, calls,
    failures>>

\* The IdP, its admin client and the scheduled task that drives the engine.
VARIABLES
  idp,         \* the users the IdP holds, in the order it lists them
  now,         \* the clock, in seconds
  kc,          \* the KeycloakAdminClient: accessToken, tokenExpiresAt
  lastCall,    \* the latest call of a client method: its requests and outcome
  task         \* SyncOIDCUsersTask.perform: its position and its locals

driverVars == <<idp, now, kc, lastCall, task>>

vars == <<engineVars, driverVars>>

\* tokenExpiresAt: Date | null, null as a date before every time.
NoDate == -1

\* A client that holds no token.
NoToken == [accessToken |-> Null, tokenExpiresAt |-> NoDate]

\* The status that stands for a request not made.
NotRequested == -1

\* No exchange with the token endpoint.
NoResponse ==
  [status |-> NotRequested, access_token |-> Null, expires_in |-> 0]

\* The record kept of a call of a client method: the clock and the client
\* before it, the response of the token endpoint and the status of the admin
\* endpoint (NotRequested when not asked), the error raised (Null when the
\* call returned) and the value returned.
NoClientCall ==
  [n |-> 0, op |-> "none", now |-> 0, before |-> NoToken,
   token |-> NoResponse, admin |-> NotRequested, error |-> Null,
   value |-> <<>>]

\* The settings the task and the client read from env.
Env(enabled, adminUrl, realm, syncClientId, syncSecret, clientId, secret) ==
  [OIDC_SYNC_ENABLED |-> enabled, OIDC_SYNC_ADMIN_URL |-> adminUrl,
   OIDC_SYNC_REALM |-> realm, OIDC_SYNC_CLIENT_ID |-> syncClientId,
   OIDC_SYNC_CLIENT_SECRET |-> syncSecret,
   OIDC_CLIENT_ID |-> clientId, OIDC_CLIENT_SECRET |-> secret]

\* perform has not been called: `reason` tells why a tick ended, `events` lists
\* the calls the tick made to the client and to the engine.  batchSize, first
\* and allUsers are the argument and the locals of getAllUsers, `requests` the
\* page requests it made.
NoTask ==
  [pc |-> "idle", env |-> Env(FALSE, Null, Null, Null, Null, Null, Null),
   reason |-> Null, authProviders |-> <<>>, batchSize |-> 0,
   allUsers |-> <<>>, first |-> 0, requests |-> <<>>,
   syncUsers |-> <<>>, next |-> 1, events |-> <<>>]

\* The engine called directly: no task runs and no client exists.
NoDriver ==
  /\ idp = <<>>
  /\ now = 0
  /\ kc = NoToken
  /\ lastCall = NoClientCall
  /\ task = NoTask

NoCall ==
  [teamId |-> Null, authenticationProviderId |-> Null, users |-> <<>>,
   defaultGroupId |-> Null, defaultGroupName |-> Null]

NoRun ==
  [existingAuths |-> <<>>, todo |-> {}, processedProviderIds |-> {},
   next |-> 1, defaultGroup |-> Null]

NoUser == User(0, Null, <<>>, "", <<>>, Null, Null, Null, Null)

\* No call came before the current one.
NoPrev ==
  [valid |-> FALSE, call |-> NoCall, result |-> UserSyncerResult,
   pre |-> [users |-> <<>>, auths |-> <<>>, groupUsers |-> <<>>]]

NoStep ==
  [kind |-> "none", user |-> NoUser, providerUser |-> SyncUser(Null, <<>>, "", <<>>),
   f |-> 0, result |-> UserSyncerResult, users |-> <<>>, auths |-> <<>>]

\* The record kept of a per-user step: the instance the code compared, the
\* snapshot entry, the failing operation, and the report and tables before it.
Step(kind, user, providerUser, f) ==
  [kind |-> kind, user |-> user, providerUser |-> providerUser, f |-> f,
   result |-> result, users |-> users, auths |-> auths]

\* ------------------------------------------------------------------ start

\* The store reads between the empty-list check and the first loop: the team,
\* the provider, the default group when one is asked for, the existing
\* authentications.
startOps(teamId, authenticationProviderId, defaultGroupId, defaultGroupName) ==
  IF teamId \notin TeamIds THEN 1
  ELSE IF authenticationProviderId \notin AuthProviderIds THEN 2
  ELSE IF Truthy(defaultGroupId) \/ Truthy(defaultGroupName) THEN 4
  ELSE 3

\* The rows findAll returns, each with its own instance of the joined user.
loadExistingAuths(authRows, userRows, teamId, authenticationProviderId) ==
  LET keep == findExistingAuths(authRows, userRows, teamId,
                                authenticationProviderId)
      pick[n \in 0..Len(authRows)] ==
        IF n = 0 THEN <<>>
        ELSE IF n \in keep
             THEN Append(pick[n - 1],
                         [providerId |-> authRows[n].providerId,
                          user |-> userRows[authRows[n].userId]])
             ELSE pick[n - 1]
  IN  pick[Len(authRows)]

\* The empty-list check left out.
isEmptyListNever(snapshot) == FALSE

\* users.length === 0
isEmptyList(snapshot) == Len(snapshot) = 0

\* The safety checks with the provider looked up before the team.
safetyCheckProviderFirst(snapshot, teamId, authenticationProviderId) ==
  IF isEmptyList(snapshot) THEN <<EmptyListError>>
  ELSE IF authenticationProviderId \notin AuthProviderIds
  THEN <<ProviderNotFoundError(authenticationProviderId)>>
  ELSE IF teamId \notin TeamIds THEN <<TeamNotFoundError(teamId)>>
  ELSE <<>>

\* The safety checks in the order of the code: what the first one that fails
\* pushes to errors before `return result`, nothing when all pass.
safetyCheck(snapshot, teamId, authenticationProviderId) ==
  IF isEmptyList(snapshot) THEN <<EmptyListError>>
  ELSE IF teamId \notin TeamIds THEN <<TeamNotFoundError(teamId)>>
  ELSE IF authenticationProviderId \notin AuthProviderIds
  THEN <<ProviderNotFoundError(authenticationProviderId)>>
  ELSE <<>>

\* userSyncer up to its first loop: the safety checks in the order of the code.
Start(teamId, authenticationProviderId, snapshot, defaultGroupId, defaultGroupName, f) ==
  LET n == startOps(teamId, authenticationProviderId, defaultGroupId,
                    defaultGroupName)
      loaded == loadExistingAuths(auths, users, teamId,
                                  authenticationProviderId)
      failed == safetyCheck(snapshot, teamId, authenticationProviderId)
      returns(errors) ==
        /\ pc' = "done"
        /\ result' = [UserSyncerResult EXCEPT !.errors = errors]
        /\ run' = NoRun
        /\ failures' = failures
  IN  /\ pc \in {"idle", "done", "threw", "abandoned"}
      /\ calls < MaxCalls
      /\ calls' = calls + 1
      /\ call' = [teamId |-> teamId,
                  authenticationProviderId |-> authenticationProviderId,
                  users |-> snapshot, defaultGroupId |-> defaultGroupId,
                  defaultGroupName |-> defaultGroupName]
      /\ prev' = [valid |-> pc = "done", call |-> call, result |-> result,
                  pre |-> pre]
      /\ pre' = [users |-> users, auths |-> auths, groupUsers |-> groupUsers]
      /\ last' = NoStep
      /\ UNCHANGED <<users, auths, groupUsers>>
      /\ IF isEmptyList(snapshot)
         THEN f = 0 /\ returns(failed)
         ELSE /\ f \in 0..n
              /\ f > 0 => failures < MaxFailures
              /\ IF f > 0
                 THEN /\ pc' = "threw"
                      /\ result' = UserSyncerResult
                      /\ run' = NoRun
                      /\ failures' = failures + 1
                 ELSE IF failed /= <<>>
                      THEN returns(failed)
                 ELSE /\ pc' = "running"
                      /\ result' = UserSyncerResult
                      /\ failures' = failures
                      /\ run' = [existingAuths |-> loaded,
                                 todo |-> 1..Len(loaded),
                                 processedProviderIds |-> {},
                                 next |-> 1,
                                 defaultGroup |->
                                   findDefaultGroup(teamId, defaultGroupId,
                                                    defaultGroupName)]

\* ---------------------------------------------------------------- phase 1

\* One iteration of `for (const auth of existingAuths)`.  findAll has no ORDER
\* BY, so the rows come in any order: the step takes any row not yet handled.
Phase1Step(k, f) ==
  LET auth == run.existingAuths[k]
      out == processExisting(users, result, call.users, auth, f)
      n == processExisting(users, result, call.users, auth, 0).ops
      matched == \E j \in 1..Len(call.users) :
                    call.users[j].providerId = auth.providerId
  IN  /\ pc = "running"
      /\ k \in run.todo
      /\ f \in 0..n
      /\ f > 0 => failures < MaxFailures
      /\ failures' = IF f > 0 THEN failures + 1 ELSE failures
      /\ users' = out.users
      /\ result' = out.result
      /\ run' = [run EXCEPT !.todo = @ \ {k},
                            !.processedProviderIds = @ \cup {auth.providerId}]
      /\ last' = Step(IF matched THEN "match" ELSE "orphan", auth.user,
                      IF matched
                      THEN providerUsersMapGet(call.users, auth.providerId)
                      ELSE NoStep.providerUser, f)
      /\ UNCHANGED <<auths, groupUsers, pc, call, pre, prev, calls>>
      /\ UNCHANGED driverVars

\* ---------------------------------------------------------------- phase 2

\* The skip of phase 2 left out.
hasProcessedNever(processedProviderIds, providerId) == FALSE

\* processedProviderIds.has(providerUser.providerId)
hasProcessed(processedProviderIds, providerId) ==
  providerId \in processedProviderIds

\* One iteration of `for (const providerUser of users)`, entered once phase 1
\* is over.  `pick` is the row findOne returns when several match (0 when none
\* does).
Phase2Step(pick, f) ==
  LET providerUser == call.users[run.next]
      found == findUsersByEmail(users, call.teamId, providerUser.email)
      link == linkExisting(users, auths, result, users[pick], providerUser,
                           call.authenticationProviderId, f)
      new == createNew(users, auths, groupUsers, result, providerUser,
                       call.teamId, call.authenticationProviderId,
                       run.defaultGroup, f)
      n == IF pick = 0
           THEN createNew(users, auths, groupUsers, result, providerUser,
                          call.teamId, call.authenticationProviderId,
                          run.defaultGroup, 0).ops
           ELSE linkExisting(users, auths, result, users[pick], providerUser,
                             call.authenticationProviderId, 0).ops
      advance == run' = [run EXCEPT !.next = @ + 1]
      frame == UNCHANGED <<pc, call, pre, prev, calls, driverVars>>
  IN  /\ pc = "running"
      /\ run.todo = {}
      /\ run.next <= Len(call.users)
      /\ advance
      /\ frame
      /\ IF hasProcessed(run.processedProviderIds, providerUser.providerId)
         THEN /\ pick = 0 /\ f = 0
              /\ last' = Step("processed", NoUser, providerUser, 0)
              /\ UNCHANGED <<users, auths, groupUsers, result, failures>>
         ELSE IF ~NonEmpty(providerUser.email)
         THEN /\ pick = 0 /\ f = 0
              /\ last' = Step("noEmail", NoUser, providerUser, 0)
              /\ result' = [result EXCEPT !.errors =
                              Append(@, NoEmailError(providerUser.providerId))]
              /\ UNCHANGED <<users, auths, groupUsers, failures>>
         ELSE /\ IF found = {} THEN pick = 0 ELSE pick \in found
              /\ f \in 0..n
              /\ f > 0 => failures < MaxFailures
              /\ failures' = IF f > 0 THEN failures + 1 ELSE failures
              /\ IF f = 1
                 THEN /\ last' = Step("lookup", NoUser, providerUser, f)
                      /\ result' = [result EXCEPT !.errors =
                                      Append(@, FailedError("create",
                                                            providerUser.email))]
                      /\ UNCHANGED <<users, auths, groupUsers>>
                 ELSE IF pick /= 0
                 THEN /\ Len(auths) < MaxAuths
                      /\ last' = Step("link", users[pick], providerUser, f)
                      /\ users' = link.users
                      /\ auths' = link.auths
                      /\ result' = link.result
                      /\ UNCHANGED groupUsers
                 ELSE /\ Len(users) < MaxUsers
                      /\ Len(auths) < MaxAuths
                      /\ last' = Step("create", NoUser, providerUser, f)
                      /\ users' = new.users
                      /\ auths' = new.auths
                      /\ groupUsers' = new.groupUsers
                      /\ result' = new.result

\* `return result` after the second loop.
Finish ==
  /\ pc = "running"
  /\ run.todo = {}
  /\ run.next > Len(call.users)
  /\ pc' = "done"
  /\ UNCHANGED <<users, auths, groupUsers, call, run, result, pre, prev, last,
                 calls, failures>>
  /\ UNCHANGED driverVars

\* ----------------------------------------------------------------- inputs

\* Avatar URLs, as their parts: one served by the IdP, one uploaded.
KeycloakAvatar1 == <<"https://", "keycloak", "/1.png">>
KeycloakAvatar2 == <<"https://", "keycloak", "/2.png">>
UploadedAvatar == <<"https://", "uploads", "/me.png">>

\* The snapshot records the engine is fed.
SyncUsers ==
  { SyncUser("g1", <<"a">>, "N", <<>>),
    SyncUser("g1", <<"A">>, "N", <<>>),
    SyncUser("g1", <<"b">>, "M", KeycloakAvatar2),
    SyncUser("g2", <<"a">>, "N", <<>>),
    SyncUser("g2", <<"b">>, "M", KeycloakAvatar2),
    SyncUser("g2", <<>>, "N", <<>>),
    SyncUser("g1", <<"a">>, "", KeycloakAvatar2) }

RECURSIVE SeqsUpTo(_, _)
SeqsUpTo(S, n) ==
  IF n = 0 THEN {<<>>}
  ELSE LET shorter == SeqsUpTo(S, n - 1)
       IN  shorter \cup {Append(q, x) : q \in shorter, x \in S}

Snapshots == SeqsUpTo(SyncUsers, MaxSnapshot)

\* The binding under test, and the calls that name an unknown team or an
\* unknown provider (the snapshot of such a call is only tested for emptiness).
UnknownBindings == {<<"T0", "P1">>, <<"T1", "P0">>, <<"T0", "P0">>}

\* Directories a call can find.  User 1 (team T1, email "a") is linked as g1 or
\* only invited, active or suspended by an admin, with no avatar, an IdP
\* avatar or an uploaded one; user 2 (team T1, email "b") is absent, invited
\* or linked as g2; user 3 belongs to team T2 and shares user 1's email and
\* providerId.  Emails are unique in a team, (provider, providerId) is unique
\* and a user has at most one authentication per provider.
InitUser1 ==
  { User(1, "T1", <<"a">>, "N", <<>>, "member", Null, Null, "seen"),
    User(1, "T1", <<"a">>, "N", KeycloakAvatar1, "member", Now, "admin", "seen"),
    User(1, "T1", <<"a">>, "N", UploadedAvatar, "admin", Null, Null, Null) }

InitUser2 == User(2, "T1", <<"b">>, "N", <<>>, "member", Null, Null, Null)

InitUser3(id) == User(id, "T2", <<"a">>, "N", <<>>, "member", Null, Null, "seen")

InitDirectories ==
  {[users |-> <<>>, auths |-> <<>>]}
  \cup
  { [users |-> <<u1>> \o (IF two = "absent" THEN <<>> ELSE <<InitUser2>>)
                 \o <<InitUser3(IF two = "absent" THEN 2 ELSE 3)>>,
     auths |-> (IF linked1 THEN <<UserAuthentication("g1", "P1", 1)>> ELSE <<>>)
               \o (IF two = "linked"
                   THEN <<UserAuthentication("g2", "P1", 2)>> ELSE <<>>)
               \o <<UserAuthentication("g1", "P2",
                                       IF two = "absent" THEN 2 ELSE 3)>>] :
      u1 \in InitUser1, linked1 \in BOOLEAN,
      two \in {"absent", "invited", "linked"} }

Init ==
  /\ \E d \in InitDirectories : users = d.users /\ auths = d.auths
  /\ groupUsers = <<>>
  /\ pc = "idle"
  /\ call = NoCall
  /\ run = NoRun
  /\ result = UserSyncerResult
  /\ pre = [users |-> users, auths |-> auths, groupUsers |-> groupUsers]
  /\ prev = NoPrev
  /\ last = NoStep
  /\ calls = 0
  /\ failures = 0
  /\ NoDriver

\* A caller invokes reconcile for the binding (T1, P1); no store operation
\* fails.
Reconcile ==
  /\ \E snapshot \in Snapshots : Start("T1", "P1", snapshot, Null, Null, 0)
  /\ UNCHANGED driverVars

\* A caller invokes reconcile with an unknown team or provider.
ReconcileUnknown ==
  /\ \E b \in UnknownBindings, snapshot \in SeqsUpTo(SyncUsers, 1) :
       Start(b[1], b[2], snapshot, Null, Null, 0)
  /\ UNCHANGED driverVars

\* A caller invokes reconcile for the other team's binding (T2, P2).
ReconcileOther ==
  /\ \E snapshot \in SeqsUpTo(SyncUsers, 1) :
       Start("T2", "P2", snapshot, Null, Null, 0)
  /\ UNCHANGED driverVars

ExistingAuth == \E k \in 1..MaxAuths : Phase1Step(k, 0)

ProviderUser == \E pick \in 0..MaxUsers : Phase2Step(pick, 0)

Next ==
  \/ Reconcile
  \/ ReconcileUnknown
  \/ ReconcileOther
  \/ ExistingAuth
  \/ ProviderUser
  \/ Finish

Spec == Init /\ [][Next]_vars

\* ------------------------------------------------------- shared vocabulary

\* The call has returned a report.
Returned == pc = "done"

\* The call ran to the end of both loops on a non-empty snapshot, no error.
Clean(res, snapshot) == res.errors = <<>> /\ Len(snapshot) > 0

Counters(res) ==
  <<res.created, res.updated, res.suspended, res.unchanged, res.reactivated,
    res.addedToGroup>>

\* The positions of the authentications of provider P on users of team T.
BoundAuths(authRows, userRows, T, P) ==
  {k \in 1..Len(authRows) :
     /\ authRows[k].authenticationProviderId = P
     /\ userRows[authRows[k].userId].teamId = T}

InSnapshot(snapshot, providerId) ==
  \E k \in 1..Len(snapshot) : snapshot[k].providerId = providerId

\* ---------------------------------------------------------------------- C1

\* C1: a call with an empty users list changes no row of the directory,
\* creates none, reports every counter 0 and exactly one error, which contains
\* "empty user list".
C1_EmptyListIsSafe ==
  (Returned /\ call.users = <<>>) =>
    /\ users = pre.users
    /\ auths = pre.auths
    /\ groupUsers = pre.groupUsers
    /\ Counters(result) = <<0, 0, 0, 0, 0, 0>>
    /\ Len(result.errors) = 1
    /\ includes(result.errors[1], "empty user list")

\* An empty list was handed in while an active user was linked to the provider.
C1_Witness ==
  /\ Returned
  /\ call.users = <<>>
  /\ call.teamId = "T1"
  /\ \E k \in BoundAuths(auths, users, "T1", "P1") :
       users[auths[k].userId].suspendedAt = Null

\* ---------------------------------------------------------------------- C2

\* The call that has just returned repeats the call before it, and neither
\* reported an error.
Repeated ==
  /\ Returned
  /\ prev.valid
  /\ prev.call = call
  /\ Clean(prev.result, call.users)
  /\ Clean(result, call.users)

\* C2: idempotence.  The second of two identical calls on a non-empty snapshot
\* with no store failure reports created = updated = suspended = reactivated
\* = 0, reports unchanged = the number of users linked to the binding after the
\* first call, and leaves the directory as the first call left it.
C2_Idempotence ==
  Repeated =>
    /\ result.created = 0
    /\ result.updated = 0
    /\ result.suspended = 0
    /\ result.reactivated = 0
    /\ result.unchanged =
         Cardinality({pre.auths[k].userId :
                        k \in BoundAuths(pre.auths, pre.users, call.teamId,
                                         call.authenticationProviderId)})
    /\ users = pre.users
    /\ auths = pre.auths

\* ---------------------------------------------------------------------- C3

\* C3: after a call on a non-empty snapshot that returns with no errors, every
\* user of the team that has an authentication of this provider whose
\* providerId is in the snapshot (which includes the users linked by email
\* during the run) is active.
C3_ReachableIsActive ==
  (Returned /\ Clean(result, call.users)) =>
    \A k \in BoundAuths(auths, users, call.teamId,
                        call.authenticationProviderId) :
      InSnapshot(call.users, auths[k].providerId) =>
        users[auths[k].userId].suspendedAt = Null

\* ---------------------------------------------------------------------- C4

\* C4: after a call on a non-empty snapshot that returns with no errors, every
\* user of the team that has an authentication of this provider whose
\* providerId is absent from the snapshot is suspended; handling such a user
\* adds exactly 1 to suspended when it was active, and 1 to unchanged with no
\* write when it was suspended already.
C4_OrphanIsSuspended ==
  /\ (Returned /\ Clean(result, call.users)) =>
       \A k \in BoundAuths(auths, users, call.teamId,
                           call.authenticationProviderId) :
         ~InSnapshot(call.users, auths[k].providerId) =>
           users[auths[k].userId].suspendedAt /= Null
  /\ (last.kind = "orphan" /\ last.f = 0) =>
       IF last.user.suspendedAt = Null
       THEN /\ result = [last.result EXCEPT !.suspended = @ + 1]
            /\ users[last.user.id].suspendedAt /= Null
       ELSE /\ result = [last.result EXCEPT !.unchanged = @ + 1]
            /\ users = last.users

\* ---------------------------------------------------------------------- C5

\* C5: after any sequence of calls no two UserAuthentication rows share the
\* same (authenticationProviderId, providerId), whatever the snapshots were.
C5_AuthenticationUnique ==
  Returned =>
    \A j, k \in 1..Len(auths) :
      (/\ auths[j].authenticationProviderId = auths[k].authenticationProviderId
       /\ auths[j].providerId = auths[k].providerId) => j = k

\* ---------------------------------------------------------------------- C6

\* C6: after any sequence of calls each user has at most one UserAuthentication
\* of the reconciled provider.
C6_OneAuthenticationPerUser ==
  Returned =>
    \A j, k \in 1..Len(auths) :
      (/\ auths[j].authenticationProviderId = call.authenticationProviderId
       /\ auths[k].authenticationProviderId = call.authenticationProviderId
       /\ auths[j].userId = auths[k].userId) => j = k

\* ---------------------------------------------------------------------- C7

\* C7: after a call on a non-empty snapshot that returns with no errors, every
\* snapshot entry with an email has exactly one user of the team holding an
\* authentication of this provider with the entry's providerId.
C7_ExactlyOneUserPerEntry ==
  (Returned /\ Clean(result, call.users)) =>
    \A i \in 1..Len(call.users) :
      NonEmpty(call.users[i].email) =>
        Cardinality({auths[k].userId :
                       k \in {j \in BoundAuths(auths, users, call.teamId,
                                               call.authenticationProviderId) :
                                auths[j].providerId = call.users[i].providerId}})
          = 1

\* ---------------------------------------------------------------------- C8

\* C8: reconcile(teamA, ...) never creates, updates, suspends or reactivates a
\* User of another team: every row of another team is as it was when the call
\* started, and every row added since belongs to teamA.
C8_NoCrossTenantWrite ==
  \A k \in 1..Len(users) :
    IF k <= Len(pre.users)
    THEN pre.users[k].teamId /= call.teamId => users[k] = pre.users[k]
    ELSE users[k].teamId = call.teamId

\* A call changed the directory of its team while a user of another team had
\* the email and the providerId of a snapshot entry.
C8_Witness ==
  /\ Returned
  /\ users /= pre.users
  /\ \E k \in 1..Len(users), i \in 1..Len(call.users) :
       /\ users[k].teamId /= call.teamId
       /\ toLowerCase(users[k].email) = toLowerCase(call.users[i].email)
       /\ \E j \in 1..Len(auths) :
            /\ auths[j].userId = k
            /\ auths[j].providerId = call.users[i].providerId

\* ---------------------------------------------------------------------- C9

\* The latest step handled a user whose email equals the entry's email up to
\* letter case.
SameEmailStep ==
  /\ last.kind \in {"match", "link"}
  /\ last.f = 0
  /\ NonEmpty(last.providerUser.email)
  /\ toLowerCase(last.user.email) = toLowerCase(last.providerUser.email)

\* C9 as stated: for a user with email e and an entry with email e', equal up
\* to case, no additional User is created and the stored email is e' after
\* the entry is handled (it adopts the IdP casing when the two differ).
C9_AdoptsProviderCasing ==
  SameEmailStep =>
    /\ Len(users) = Len(last.users)
    /\ users[last.user.id].email = last.providerUser.email

\* C9 as amended: for a user of the team with email e and an entry with email
\* e', equal up to case, no User is created for the entry, and handling the
\* entry leaves the stored email as it was (a case-only difference is not a
\* change).
C9_KeepsStoredCasing ==
  /\ SameEmailStep =>
       /\ Len(users) = Len(last.users)
       /\ users[last.user.id].email = last.users[last.user.id].email
  /\ last.kind = "create" =>
       \A k \in 1..Len(last.users) :
         last.users[k].teamId = call.teamId =>
           toLowerCase(last.users[k].email)
             /= toLowerCase(last.providerUser.email)

\* An entry whose email differs from the user's only in case was handled.
C9_Witness ==
  /\ SameEmailStep
  /\ last.user.email /= last.providerUser.email

\* --------------------------------------------------------------------- C10

\* C10: when a linked, active user's email differs from the entry's only in
\* letter case and name and avatar are equal, handling the user adds 1 to
\* unchanged, nothing to updated or created, and writes nothing.
C10_CaseOnlyDifferenceIsUnchanged ==
  (/\ last.kind = "match"
   /\ last.f = 0
   /\ last.user.suspendedAt = Null
   /\ last.user.email /= last.providerUser.email
   /\ toLowerCase(last.user.email) = toLowerCase(last.providerUser.email)
   /\ last.user.name = last.providerUser.name
   /\ last.user.avatarUrl = last.providerUser.avatarUrl) =>
    /\ result = [last.result EXCEPT !.unchanged = @ + 1]
    /\ users = last.users
    /\ auths = last.auths

\* Such a user was handled in phase 1.
C10_Witness ==
  /\ last.kind = "match"
  /\ last.f = 0
  /\ last.user.suspendedAt = Null
  /\ last.user.email = <<"a">>
  /\ last.providerUser.email = <<"A">>
  /\ last.user.name = last.providerUser.name
  /\ last.user.avatarUrl = last.providerUser.avatarUrl
  /\ result.unchanged = last.result.unchanged + 1

\* ------------------------------------------------- store failures: SpecF

\* The largest number of store operations one step performs (the lookup, the
\* two inserts, the group membership and the commit of a create).
MaxOps == 5

\* One reconcile call in which a store operation may throw: operation f of the
\* step fails (0: none).  The call is for the binding (T1, P1), with or without
\* a default group, ...
ReconcileF ==
  /\ calls = 0
  /\ \E snapshot \in Snapshots, defaultGroupId \in {Null, "G1"}, f \in 0..MaxOps :
       Start("T1", "P1", snapshot, defaultGroupId, Null, f)
  /\ UNCHANGED driverVars

\* ... or for an unknown team or provider, or for the binding (T2, P2).
ReconcileOtherF ==
  /\ calls = 0
  /\ \E b \in UnknownBindings \cup {<<"T2", "P2">>}, snapshot \in SeqsUpTo(SyncUsers, 1), f \in 0..MaxOps :
       Start(b[1], b[2], snapshot, Null, Null, f)
  /\ UNCHANGED driverVars

ExistingAuthF == \E k \in 1..MaxAuths, f \in 0..MaxOps : Phase1Step(k, f)

ProviderUserF == \E pick \in 0..MaxUsers, f \in 0..MaxOps : Phase2Step(pick, f)

NextF ==
  \/ ReconcileF
  \/ ReconcileOtherF
  \/ ExistingAuthF
  \/ ProviderUserF
  \/ Finish

SpecF == Init /\ [][NextF]_vars

\* --------------------------------------------------------------------- C11

\* C11: reconcile never raises to its caller: whichever store operation fails
\* (the team, provider or group lookup, the load of the existing
\* authentications, a per-user read or write), the call returns a report whose
\* errors record the failure.
C11_NeverRaises ==
  /\ pc /= "threw"
  /\ Returned => Len(result.errors) >= failures

\* --------------------------------------------------------------------- C12

\* A per-user step of either loop in which a store operation throws.
FailedStep == pc = "running" /\ failures' = failures + 1

\* The error the catch block of the step appends.
StepError(step) ==
  IF step.kind = "match"
  THEN FailedError("update", emailAfterSet(step.user, step.providerUser))
  ELSE IF step.kind = "orphan"
  THEN FailedError("suspend", step.user.email)
  ELSE FailedError("create", step.providerUser.email)

\* The loop variables after one more iteration, whatever the iteration did.
LoopAdvanced ==
  \/ \E k \in run.todo :
       run' = [run EXCEPT !.todo = @ \ {k},
                          !.processedProviderIds =
                            @ \cup {run.existingAuths[k].providerId}]
  \/ run.todo = {} /\ run' = [run EXCEPT !.next = @ + 1]

\* C12: a step whose store operation fails appends exactly one "Failed to
\* {create|update|suspend} user {email}: {message}" entry, leaves the rows of
\* every other user, every authentication and every membership as they were,
\* and the loops go on with the next record as after a step that succeeded.
C12_FaultIsolation ==
  [][FailedStep =>
       /\ result'.errors = Append(result.errors, StepError(last'))
       /\ Len(users') = Len(users)
       /\ \A id \in 1..Len(users) : id /= last'.user.id => users'[id] = users[id]
       /\ auths' = auths
       /\ groupUsers' = groupUsers
       /\ pc' = "running"
       /\ LoopAdvanced]_vars

\* A record processed, with a mutation, after the failure of an earlier one.
C12_Witness ==
  /\ failures = 1
  /\ last.f = 0
  /\ last.kind \in {"match", "orphan", "link", "create"}
  /\ Len(last.result.errors) = 1
  /\ last.result.errors[1][1] = "Failed to "
  /\ users /= last.users
  /\ Len(result.errors) = 1

\* --------------------------------------------------------------------- C13

\* The providerId had, when the call started, an authentication of the call's
\* provider on a user of the call's team.
AlreadyLinked(providerId) ==
  \E k \in BoundAuths(pre.auths, pre.users, call.teamId,
                      call.authenticationProviderId) :
    pre.auths[k].providerId = providerId

\* C13: within a call no existing authentication is processed after a snapshot
\* entry has been, and the entries of phase 2 start only when every existing
\* authentication has been processed; an entry whose providerId already had an
\* authentication of this provider on a user of the team is passed over by
\* phase 2, which creates no User and no UserAuthentication for it.
C13_PhaseOrder ==
  [][pc = "running" =>
       /\ run'.todo /= run.todo => run.next = 1
       /\ run'.next /= run.next =>
            /\ run.todo = {}
            /\ AlreadyLinked(call.users[run.next].providerId) =>
                 /\ last'.kind = "processed"
                 /\ users' = users
                 /\ auths' = auths]_vars

\* Phase 1 updated or reactivated the user, phase 2 passed the entry over.
C13_Witness ==
  /\ last.kind = "processed"
  /\ AlreadyLinked(last.providerUser.providerId)
  /\ result.updated + result.reactivated > 0
  /\ users /= pre.users

\* --------------------------------------------------------------------- C14

\* The preconditions of the call that do not hold.
EmptySnapshot == Len(call.users) = 0
UnknownTeam == call.teamId \notin TeamIds
UnknownProvider == call.authenticationProviderId \notin AuthProviderIds

\* C14: the preconditions are tested in the order empty snapshot, team,
\* provider; the call returns at the first that fails, having run no per-user
\* step and changed no row, with every counter 0 and the error of that
\* precondition as the only entry of errors, also when several fail together.
C14_SafetyAbort ==
  (Returned /\ (EmptySnapshot \/ UnknownTeam \/ UnknownProvider)) =>
    /\ Counters(result) = <<0, 0, 0, 0, 0, 0>>
    /\ users = pre.users /\ auths = pre.auths /\ groupUsers = pre.groupUsers
    /\ last = NoStep
    /\ Len(result.errors) = 1
    /\ EmptySnapshot => result.errors[1] = EmptyListError
    /\ (~EmptySnapshot /\ UnknownTeam) =>
         result.errors[1] = TeamNotFoundError(call.teamId)
    /\ (~EmptySnapshot /\ ~UnknownTeam) =>
         result.errors[1] =
           ProviderNotFoundError(call.authenticationProviderId)

\* A call with users, for an unknown team and an unknown provider, made after
\* a call that changed the directory.
C14_Witness ==
  /\ Returned
  /\ ~EmptySnapshot /\ UnknownTeam /\ UnknownProvider
  /\ result.errors = <<TeamNotFoundError(call.teamId)>>
  /\ prev.valid
  /\ prev.result.created > 0

\* --------------------------------------------------------------------- C15

\* The rows the create branch adds for the entry of the latest step: a User
\* with the entry's name and email, the team's default role or Member, never
\* active, and its UserAuthentication.
CreatedBoth ==
  LET id == Len(last.users) + 1
  IN  /\ Len(users) = id
      /\ Len(auths) = Len(last.auths) + 1
      /\ SubSeq(users, 1, Len(last.users)) = last.users
      /\ SubSeq(auths, 1, Len(last.auths)) = last.auths
      /\ users[id].teamId = call.teamId
      /\ users[id].name = last.providerUser.name
      /\ users[id].email = last.providerUser.email
      /\ users[id].role = (IF Teams[call.teamId] = Null THEN "member"
                           ELSE Teams[call.teamId])
      /\ users[id].lastActiveAt = Null
      /\ auths[Len(auths)] =
           UserAuthentication(last.providerUser.providerId,
                              call.authenticationProviderId, id)

CreatedNeither == users = last.users /\ auths = last.auths

\* C15: the create branch of phase 2 adds the User and its UserAuthentication
\* together or not at all: after the step both rows exist, the User with the
\* entry's name and email, the team's default role (Member without one) and
\* lastActiveAt null, or neither does; a throw inside the transaction leaves
\* neither.
C15_CreateIsAtomic ==
  last.kind = "create" =>
    /\ CreatedBoth \/ CreatedNeither
    /\ last.f > 0 => CreatedNeither
    /\ last.f = 0 => CreatedBoth

\* The insert of the authentication throws after the insert of the user, in a
\* call that has already created another user.
C15_Witness ==
  /\ last.kind = "create"
  /\ last.f = 3
  /\ CreatedNeither
  /\ Len(last.users) > Len(pre.users)
  /\ result.created = 1

\* --------------------------------------------------------------------- C16

\* The latest step handled, without a failure, an entry of phase 2 whose email
\* a user of the team has up to letter case.
LinkStep ==
  /\ last.kind = "link"
  /\ last.f = 0
  /\ last.user.teamId = call.teamId
  /\ toLowerCase(last.user.email) = toLowerCase(last.providerUser.email)

\* What every such step does: no User is created and created stays; the user
\* gets one more authentication, with the entry's providerId.
LinkedNotCreated ==
  /\ last.kind = "create" =>
       \A k \in 1..Len(last.users) :
         last.users[k].teamId = call.teamId =>
           toLowerCase(last.users[k].email)
             /= toLowerCase(last.providerUser.email)
  /\ last.kind = "link" => LinkStep \/ last.f > 0
  /\ LinkStep =>
       /\ Len(users) = Len(last.users)
       /\ result.created = last.result.created
       /\ auths = Append(last.auths,
                         UserAuthentication(last.providerUser.providerId,
                                            call.authenticationProviderId,
                                            last.user.id))

\* The entry carries a name, an email (compared without case) or an avatar
\* that is not the user's.
AttributesDiffer ==
  \/ Truthy(last.providerUser.name) /\ last.providerUser.name /= last.user.name
  \/ toLowerCase(last.providerUser.email) /= toLowerCase(last.user.email)
  \/ /\ NonEmpty(last.providerUser.avatarUrl)
     /\ last.providerUser.avatarUrl /= last.user.avatarUrl

\* The attribute diff selects a write: a name that differs, or an avatar that
\* differs while the user has none or one served by the IdP.
DiffSelectsUpdate ==
  \/ Truthy(last.providerUser.name) /\ last.providerUser.name /= last.user.name
  \/ /\ NonEmpty(last.providerUser.avatarUrl)
     /\ last.providerUser.avatarUrl /= last.user.avatarUrl
     /\ \/ last.user.avatarUrl = <<>>
        \/ \E k \in 1..Len(last.user.avatarUrl) :
             last.user.avatarUrl[k] = "keycloak"

\* C16 as stated: an entry with an unknown providerId and the email of a user
\* of the team creates no User, leaves created as it is, adds one
\* UserAuthentication with its providerId to that user, and adds 1 to updated
\* when its attributes differ from the user's.
C16_UpdatedWhenAttributesDiffer ==
  /\ LinkedNotCreated
  /\ (LinkStep /\ AttributesDiffer) =>
       result.updated = last.result.updated + 1

\* C16 as amended: the same, with 1 added to updated exactly when the
\* attribute diff selects a write (a non-empty name that differs, a non-empty
\* avatar that differs from an empty or IdP-served one), 0 otherwise.
C16_UpdatedWhenDiffSelects ==
  /\ LinkedNotCreated
  /\ LinkStep =>
       result.updated =
         last.result.updated + (IF DiffSelectsUpdate THEN 1 ELSE 0)

\* An invited user, without any authentication, was linked by an entry with
\* its email and a new name.
C16_Witness ==
  /\ LinkStep
  /\ last.user.name /= last.providerUser.name
  /\ result.updated = last.result.updated + 1
  /\ \A k \in 1..Len(last.auths) : last.auths[k].userId /= last.user.id

\* --------------------------------------------------------------------- C17

\* The latest step handled, without a failure, a linked user who was suspended
\* and whose providerId is in the snapshot.
ReactivationStep ==
  /\ last.kind = "match"
  /\ last.f = 0
  /\ last.user.suspendedAt /= Null

\* The step wrote a name, an email or an avatar.
AttributesChanged ==
  LET before == last.users[last.user.id]
      after == users[last.user.id]
  IN  \/ after.name /= before.name
      \/ after.email /= before.email
      \/ after.avatarUrl /= before.avatarUrl

\* The users suspended at the start of the call who had an authentication of
\* the call's provider whose providerId is in the snapshot.
SuspendedInSnapshot ==
  {pre.auths[k].userId :
     k \in {j \in BoundAuths(pre.auths, pre.users, call.teamId,
                             call.authenticationProviderId) :
              /\ pre.users[pre.auths[j].userId].suspendedAt /= Null
              /\ InSnapshot(call.users, pre.auths[j].providerId)}}

\* C17: handling a linked, suspended user found in the snapshot clears
\* suspendedAt and suspendedById and adds exactly 1 to reactivated, with or
\* without a change of attributes; it adds exactly 1 to updated when attributes
\* changed and 1 to unchanged when none did; no counter gets more than 1, and
\* the user is active when the call returns.
C17_ReactivatedOnce ==
  /\ ReactivationStep =>
       /\ users[last.user.id].suspendedAt = Null
       /\ users[last.user.id].suspendedById = Null
       /\ result.reactivated = last.result.reactivated + 1
       /\ result.updated =
            last.result.updated + (IF AttributesChanged THEN 1 ELSE 0)
       /\ result.unchanged =
            last.result.unchanged + (IF AttributesChanged THEN 0 ELSE 1)
       /\ result.created = last.result.created
       /\ result.suspended = last.result.suspended
  /\ (Returned /\ Clean(result, call.users)) =>
       \A id \in SuspendedInSnapshot :
         users[id].suspendedAt = Null /\ users[id].suspendedById = Null

\* A user suspended by an admin came back in the snapshot with another avatar:
\* updated and reactivated are both 1 after the step.
C17_Witness ==
  /\ ReactivationStep
  /\ AttributesChanged
  /\ last.user.suspendedById /= Null
  /\ result.updated = 1
  /\ result.reactivated = 1

\* --------------------------------------------------------------------- C18

\* C18: in the link branch of phase 2 a user adds to unchanged exactly when
\* no attribute was updated and the user was not reactivated, and then adds 1;
\* a suspended user linked without a change of attributes adds 1 to
\* reactivated and nothing to unchanged.
C18_UnchangedOnLink ==
  (last.kind = "link" /\ last.f = 0) =>
    LET wasUpdated == result.updated /= last.result.updated
        wasReactivated == last.user.suspendedAt /= Null
    IN  /\ result.unchanged =
             last.result.unchanged
               + (IF ~wasUpdated /\ ~wasReactivated THEN 1 ELSE 0)
        /\ wasReactivated =>
             result.reactivated = last.result.reactivated + 1

\* --------------------------------------------------------------------- C19

\* The (authentication, user) pairs phase 1 has handled so far in the call.
Phase1Processed == Len(run.existingAuths) - Cardinality(run.todo)

\* The snapshot entries phase 2 has handled so far: those it did not pass over
\* as already processed.
Phase2Processed ==
  Cardinality({k \in 1..(run.next - 1) :
                 call.users[k].providerId \notin run.processedProviderIds})

CounterSum(res) ==
  res.created + res.updated + res.unchanged + res.suspended + res.reactivated

\* C19: as long as the call has met no per-user failure and skipped no entry
\* for its empty email, created + updated + unchanged + suspended + reactivated
\* is at least the number of inputs processed: the pairs handled by phase 1
\* plus the entries handled by phase 2.  It holds at every step of the call
\* and so in the report it returns.
C19_Totality ==
  (pc \in {"running", "done"} /\ Clean(result, call.users)) =>
    CounterSum(result) >= Phase1Processed + Phase2Processed

\* A returned call that handled pairs in phase 1 and entries in phase 2, one
\* of them counted twice.
C19_Witness ==
  /\ Returned
  /\ Clean(result, call.users)
  /\ Phase1Processed >= 1
  /\ Phase2Processed >= 1
  /\ result.suspended >= 1
  /\ CounterSum(result) > Phase1Processed + Phase2Processed

\* ------------------------------------------------- avatars: SpecAvatar

\* Avatar URLs an IdP serves from a host whose name lacks "keycloak".
PictureAvatar1 == <<"https://", "cdn", "/1.png">>
PictureAvatar2 == <<"https://", "cdn", "/2.png">>

\* Snapshot records for the user with email "a", known to the IdP under two
\* ids, with and without an avatar.
AvatarSyncUsers ==
  { SyncUser("g1", <<"a">>, "N", PictureAvatar1),
    SyncUser("g1", <<"a">>, "N", KeycloakAvatar2),
    SyncUser("g2", <<"a">>, "N", PictureAvatar2),
    SyncUser("g2", <<"a">>, "N", <<>>) }

\* A caller invokes reconcile for the binding (T1, P1) with such records.
ReconcileAvatar ==
  /\ \E snapshot \in SeqsUpTo(AvatarSyncUsers, MaxSnapshot) :
       Start("T1", "P1", snapshot, Null, Null, 0)
  /\ UNCHANGED driverVars

NextAvatar ==
  \/ ReconcileAvatar
  \/ ExistingAuth
  \/ ProviderUser
  \/ Finish

SpecAvatar == Init /\ [][NextAvatar]_vars

\* --------------------------------------------------------------------- C20

\* C20: a step overwrites a stored avatarUrl only with the non-empty avatarUrl
\* of the entry it handles and only when the stored avatarUrl is empty or
\* contains "keycloak"; a stored, non-empty avatarUrl without "keycloak" is
\* changed by no step of any call, in phase 1 and in the link branch.
C20_AvatarProtected ==
  [][\A id \in 1..Len(users) :
       users'[id].avatarUrl /= users[id].avatarUrl =>
         /\ NonEmpty(last'.providerUser.avatarUrl)
         /\ users'[id].avatarUrl = last'.providerUser.avatarUrl
         /\ \/ users[id].avatarUrl = <<>>
            \/ \E k \in 1..Len(users[id].avatarUrl) :
                 users[id].avatarUrl[k] = "keycloak"]_vars

\* ------------------------------------- repeated calls with failures: SpecR

\* Reconcile calls for the binding (T1, P1), one after the other, each with a
\* snapshot of at most one record, in which a store operation may throw.
ReconcileR ==
  /\ \E snapshot \in SeqsUpTo(SyncUsers, 1), f \in 0..MaxOps :
       Start("T1", "P1", snapshot, Null, Null, f)
  /\ UNCHANGED driverVars

NextR ==
  \/ ReconcileR
  \/ ExistingAuthF
  \/ ProviderUserF
  \/ Finish

SpecR == Init /\ [][NextR]_vars

\* --------------------------------------------------------------------- C21

\* C21: no step of any call, failed or not, removes a User or a
\* UserAuthentication or changes an existing UserAuthentication: the two
\* tables only grow at their end, a user keeps its id and its team, and every
\* authentication row stays as it was inserted.
C21_RowsOnlyGrow ==
  [][/\ Len(users') >= Len(users)
     /\ Len(auths') >= Len(auths)
     /\ SubSeq(auths', 1, Len(auths)) = auths
     /\ \A id \in 1..Len(users) :
          /\ users'[id].id = users[id].id
          /\ users'[id].teamId = users[id].teamId]_vars

\* A second call added an authentication to the directory after a store
\* operation had failed.
C21_Witness ==
  /\ calls = 2
  /\ failures = 1
  /\ Len(result.errors) + Len(prev.result.errors) >= 1
  /\ Len(auths) > Len(pre.auths)
  /\ Len(pre.auths) > 0

\* --------------------------------------------------------------------- C22

\* Phase 2 is about to handle an entry with an empty email whose providerId
\* had no authentication of the provider in the team when the call started.
NoEmailEntry ==
  /\ pc = "running"
  /\ run.todo = {}
  /\ run.next <= Len(call.users)
  /\ call.users[run.next].email = <<>>
  /\ ~AlreadyLinked(call.users[run.next].providerId)

\* C22: handling such an entry creates no User and no UserAuthentication,
\* changes no row and no counter, appends exactly the one error "Skipping user
\* {providerId}: no email address", and the loop goes on with the next entry.
C22_NoEmailIsSkipped ==
  [][(NoEmailEntry /\ run' /= run) =>
       /\ users' = users
       /\ auths' = auths
       /\ groupUsers' = groupUsers
       /\ result' =
            [result EXCEPT !.errors =
               Append(@, <<"Skipping user ", call.users[run.next].providerId,
                           ": ", "no email address">>)]
       /\ pc' = "running"
       /\ run' = [run EXCEPT !.next = @ + 1]]_vars

\* An entry was handled, and a row written for it, after the entry before it
\* had been skipped for its empty email.
C22_Witness ==
  /\ last.kind \in {"link", "create"}
  /\ last.result.errors = <<NoEmailError("g2")>>
  /\ result.errors = last.result.errors
  /\ auths /= last.auths

\* ------------------------------------------------- the Keycloak admin client

\* The buffer of getAdminToken, 60000 ms, in seconds.
TokenBuffer == 60

\* fetch() rejects: no HTTP response at all.
TransportFailure == 0

\* response.ok
ok(status) == status \in 200..299

\* The cached token is reused when the expiry is not later than the clock.
isTokenFreshNoBuffer(c, t) ==
  /\ c.accessToken /= Null
  /\ c.tokenExpiresAt /= NoDate
  /\ c.tokenExpiresAt > t

\* this.accessToken && this.tokenExpiresAt &&
\* this.tokenExpiresAt > new Date(Date.now() + 60000)
isTokenFresh(c, t) ==
  /\ c.accessToken /= Null
  /\ c.tokenExpiresAt /= NoDate
  /\ c.tokenExpiresAt > t + TokenBuffer

\* getAdminToken at time t, `tok` being what the token endpoint answers if it
\* is asked: the client afterwards, the response used (NoResponse when the
\* cached token is returned), the error thrown (Null when none) and the token.
getAdminToken(c, t, tok) ==
  IF isTokenFresh(c, t)
  THEN [client |-> c, token |-> NoResponse, error |-> Null,
        value |-> c.accessToken]
  ELSE IF tok.status = TransportFailure
  THEN [client |-> c, token |-> tok, error |-> "InvalidRequestError",
        value |-> Null]
  ELSE IF ~ok(tok.status)
  THEN [client |-> c, token |-> tok, error |-> "AuthenticationError",
        value |-> Null]
  ELSE [client |-> [accessToken |-> tok.access_token,
                    tokenExpiresAt |-> t + tok.expires_in],
        token |-> tok, error |-> Null, value |-> tok.access_token]

\* The handling of a 401 or 403 that keeps the cached token.
adminFailureKeepsToken(c, status) ==
  IF status \in {401, 403}
  THEN [client |-> c, error |-> "AuthenticationError"]
  ELSE [client |-> c, error |-> "InvalidRequestError"]

\* if (!response.ok) { ... } of adminRequest
adminFailure(c, status) ==
  IF status \in {401, 403}
  THEN [client |-> NoToken, error |-> "AuthenticationError"]
  ELSE [client |-> c, error |-> "InvalidRequestError"]

\* adminRequest at time t: the token, then the GET, whose status is `status`.
\* fetch is awaited outside any try, so a transport failure leaves the method
\* as the error fetch threw.
adminRequest(c, t, tok, status) ==
  LET g == getAdminToken(c, t, tok)
  IN  IF g.error /= Null
      THEN [client |-> g.client, token |-> g.token, admin |-> NotRequested,
            error |-> g.error]
      ELSE IF status = TransportFailure
      THEN [client |-> g.client, token |-> g.token, admin |-> status,
            error |-> "FetchError"]
      ELSE IF ~ok(status)
      THEN [client |-> adminFailure(g.client, status).client,
            token |-> g.token, admin |-> status,
            error |-> adminFailure(g.client, status).error]
      ELSE [client |-> g.client, token |-> g.token, admin |-> status,
            error |-> Null]

\* getUserCount(): adminRequest on the count endpoint.
getUserCount(c, t, tok, status) == adminRequest(c, t, tok, status)

\* The connection test that lets the error of the probe through.
testConnectionUncaught(c, t, tok, status) ==
  LET r == getUserCount(c, t, tok, status)
  IN  [client |-> r.client, token |-> r.token, admin |-> r.admin,
       error |-> r.error,
       value |-> IF r.error = Null THEN <<TRUE>> ELSE <<>>]

\* testConnection: try { await this.getUserCount(); return true }
\* catch { return false }
testConnection(c, t, tok, status) ==
  LET r == getUserCount(c, t, tok, status)
  IN  [client |-> r.client, token |-> r.token, admin |-> r.admin,
       error |-> Null, value |-> <<r.error = Null>>]

\* The record of the call `op` whose outcome is `r`.
ClientCall(op, r, value) ==
  [n |-> lastCall.n + 1, op |-> op, now |-> now, before |-> kc,
   token |-> r.token, admin |-> r.admin, error |-> r.error, value |-> value]

\* ------------------------------------------------- the client alone: SpecK

MaxClientCalls == 3
MaxClock == 120
ClockStep == 30

\* What the token endpoint may answer: no response, a refusal, a server
\* error, or a token that lasts as long as the buffer or twice as long.
TokenResponses ==
  {[status |-> TransportFailure, access_token |-> Null, expires_in |-> 0]}
  \cup {[status |-> st, access_token |-> Null, expires_in |-> 0] :
          st \in {401, 500}}
  \cup {[status |-> 200, access_token |-> tk, expires_in |-> e] :
          tk \in {"t1", "t2"}, e \in {60, 120}}

\* What an admin endpoint may answer.
AdminStatuses == {TransportFailure, 200, 401, 403, 500}

\* A caller asks for the number of users.
GetUserCount ==
  /\ lastCall.n < MaxClientCalls
  /\ \E tok \in TokenResponses, status \in AdminStatuses :
       LET r == getUserCount(kc, now, tok, status)
       IN  /\ kc' = r.client
           /\ lastCall' =
                ClientCall("getUserCount", r,
                           IF r.error = Null THEN <<"count">> ELSE <<>>)
  /\ UNCHANGED <<engineVars, idp, now, task>>

\* A caller tests the connection.
TestConnection ==
  /\ lastCall.n < MaxClientCalls
  /\ \E tok \in TokenResponses, status \in AdminStatuses :
       LET r == testConnection(kc, now, tok, status)
       IN  /\ kc' = r.client
           /\ lastCall' = ClientCall("testConnection", r, r.value)
  /\ UNCHANGED <<engineVars, idp, now, task>>

\* Time passes.
Clock ==
  /\ now < MaxClock
  /\ now' = now + ClockStep
  /\ UNCHANGED <<engineVars, idp, kc, lastCall, task>>

\* A client just constructed, nothing else running.
InitK ==
  /\ users = <<>> /\ auths = <<>> /\ groupUsers = <<>>
  /\ pc = "idle"
  /\ call = NoCall
  /\ run = NoRun
  /\ result = UserSyncerResult
  /\ pre = [users |-> <<>>, auths |-> <<>>, groupUsers |-> <<>>]
  /\ prev = NoPrev
  /\ last = NoStep
  /\ calls = 0
  /\ failures = 0
  /\ NoDriver

NextK ==
  \/ GetUserCount
  \/ TestConnection
  \/ Clock

SpecK == InitK /\ [][NextK]_vars

\* ------------------------------------------------------- the scheduled task

\* getAllUsers(100, true) and its safety limit of 100000, scaled: a page holds
\* BatchSize users and the listing stops once `first` exceeds SafetyLimit.
BatchSize == 1
SafetyLimit == 1

\* A user as the Keycloak Admin API returns it.
KeycloakUser(id, username, email, firstName, lastName, enabled) ==
  [id |-> id, username |-> username, email |-> email,
   firstName |-> firstName, lastName |-> lastName, enabled |-> enabled]

\* The users the API lists for enabled=true.
enabledUsers(listing) == SelectSeq(listing, LAMBDA u : u.enabled)

\* GET users?first=..&max=..&enabled=true on the IdP's current users.
getUsersPage(listing, first, max) ==
  LET all == enabledUsers(listing)
      upTo == IF first + max < Len(all) THEN first + max ELSE Len(all)
  IN  SubSeq(all, first + 1, upTo)

\* buildUserName; an email of the model has one part, which is its text.
buildUserName(u) ==
  IF Truthy(u.firstName) /\ Truthy(u.lastName)
  THEN u.firstName \o " " \o u.lastName
  ELSE IF Truthy(u.firstName) THEN u.firstName
  ELSE IF Truthy(u.lastName) THEN u.lastName
  ELSE IF Truthy(u.username) THEN u.username
  ELSE IF NonEmpty(u.email) THEN u.email[1]
  ELSE "Unknown User"

\* keycloakUsers.filter((u) => u.email).map(...)
toSyncUsers(keycloakUsers) ==
  LET withEmail == SelectSeq(keycloakUsers, LAMBDA u : NonEmpty(u.email))
  IN  [k \in 1..Len(withEmail) |->
         SyncUser(withEmail[k].id, withEmail[k].email,
                  buildUserName(withEmail[k]), <<>>)]

\* The error entries the conversion produces for the records it drops: the
\* filter drops them without a trace.
toSyncErrors(keycloakUsers) == <<>>

\* A constructor that accepts any settings.
canConstructUnchecked(env) == TRUE

\* new KeycloakAdminClient() throws without credentials, URL or realm.
canConstruct(env) ==
  /\ Truthy(env.OIDC_SYNC_CLIENT_ID) \/ Truthy(env.OIDC_CLIENT_ID)
  /\ Truthy(env.OIDC_SYNC_CLIENT_SECRET) \/ Truthy(env.OIDC_CLIENT_SECRET)
  /\ Truthy(env.OIDC_SYNC_ADMIN_URL)
  /\ Truthy(env.OIDC_SYNC_REALM)

\* The call the tick makes, as an entry of task.events.
Event(op, teamId, authenticationProviderId) ==
  [op |-> op, teamId |-> teamId,
   authenticationProviderId |-> authenticationProviderId]

\* The tick returns.
ended(reason) ==
  task' = [task EXCEPT !.pc = "ended", !.reason = reason]

\* perform, down to the construction of the client: `owned` is what findAll
\* returns for this replica's partition.
Perform(env, owned) ==
  /\ task.pc = "idle"
  /\ IF ~env.OIDC_SYNC_ENABLED
     THEN task' = [task EXCEPT !.pc = "ended", !.env = env,
                               !.reason = "disabled"]
     ELSE IF ~Truthy(env.OIDC_SYNC_ADMIN_URL) \/ ~Truthy(env.OIDC_SYNC_REALM)
     THEN task' = [task EXCEPT !.pc = "ended", !.env = env,
                               !.reason = "not configured"]
     ELSE IF Len(owned) = 0
     THEN task' = [task EXCEPT !.pc = "ended", !.env = env,
                               !.reason = "no providers"]
     ELSE IF ~canConstruct(env)
     THEN task' = [task EXCEPT !.pc = "ended", !.env = env,
                               !.authProviders = owned,
                               !.reason = "no client"]
     ELSE task' = [task EXCEPT !.pc = "testConnection", !.env = env,
                               !.authProviders = owned]
  /\ kc' = NoToken
  /\ UNCHANGED <<engineVars, idp, now, lastCall>>

\* const connected = await keycloakClient.testConnection()
TaskTestConnection(tok, status) ==
  LET r == testConnection(kc, now, tok, status)
      events == Append(task.events, Event("testConnection", Null, Null))
  IN  /\ task.pc = "testConnection"
      /\ kc' = r.client
      /\ lastCall' = ClientCall("testConnection", r, r.value)
      /\ IF r.error = Null /\ r.value = <<TRUE>>
         THEN task' = [task EXCEPT !.pc = "fetch", !.events = events,
                                   !.batchSize = BatchSize]
         ELSE task' = [task EXCEPT !.pc = "ended", !.events = events,
                                   !.reason = "not connected"]
      /\ UNCHANGED <<engineVars, idp, now>>

\* A loop body that asks for the same page again.
getAllUsersNextSamePage(batchSize, limit, first, allUsers, batch) ==
  IF Len(batch) < batchSize
  THEN [stop |-> TRUE, first |-> first, allUsers |-> allUsers \o batch]
  ELSE [stop |-> FALSE, first |-> first, allUsers |-> allUsers \o batch]

\* The body of the loop of getAllUsers after getUsers(first, batchSize)
\* returned `batch`; `limit` is the safety limit.
getAllUsersNext(batchSize, limit, first, allUsers, batch) ==
  IF Len(batch) < batchSize
  THEN [stop |-> TRUE, first |-> first, allUsers |-> allUsers \o batch]
  ELSE IF first + batchSize > limit
  THEN [stop |-> TRUE, first |-> first + batchSize,
        allUsers |-> allUsers \o batch]
  ELSE [stop |-> FALSE, first |-> first + batchSize,
        allUsers |-> allUsers \o batch]

\* The page request getUsers(first, max) and the batch it returned.
Request(first, max, returned) ==
  [first |-> first, max |-> max, returned |-> returned]

\* One iteration of the loop of getAllUsers and, when it is the last, the
\* rest of perform down to the loop over the providers.
TaskFetchPage(tok, status) ==
  LET r == adminRequest(kc, now, tok, status)
      page == getUsersPage(idp, task.first, task.batchSize)
      g == getAllUsersNext(task.batchSize, SafetyLimit, task.first,
                           task.allUsers, page)
      events == Append(task.events, Event("getUsers", Null, Null))
      requests ==
        Append(task.requests,
               Request(task.first, task.batchSize,
                       IF r.error = Null THEN page ELSE <<>>))
  IN  /\ task.pc = "fetch"
      /\ kc' = r.client
      /\ lastCall' = ClientCall("getUsers", r, <<>>)
      /\ IF r.error /= Null
         THEN task' = [task EXCEPT !.pc = "ended", !.events = events,
                                   !.requests = requests,
                                   !.reason = "fetch failed"]
         ELSE IF ~g.stop
         THEN task' = [task EXCEPT !.allUsers = g.allUsers,
                                   !.first = g.first, !.events = events,
                                   !.requests = requests]
         ELSE IF Len(g.allUsers) = 0
         THEN task' = [task EXCEPT !.pc = "ended", !.allUsers = g.allUsers,
                                   !.first = g.first, !.events = events,
                                   !.requests = requests,
                                   !.reason = "no users"]
         ELSE task' = [task EXCEPT !.pc = "sync", !.allUsers = g.allUsers,
                                   !.first = g.first, !.events = events,
                                   !.requests = requests,
                                   !.syncUsers = toSyncUsers(g.allUsers),
                                   !.next = 1]
      /\ UNCHANGED <<engineVars, idp, now>>

\* A loop whose body has no try/catch: an exception of the engine leaves it.
loopGoesOnUncaught(outcome) == outcome \in {"idle", "done"}

\* The loop over the providers goes on after a call of the engine that
\* returned a report, with or without errors, and after one that threw: the
\* call is inside try/catch.
loopGoesOn(outcome) == outcome \in {"idle", "done", "threw"}

\* One iteration of `for (const authProvider of authProviders)`: the call of
\* userSyncer, whose steps follow; f is the store read that throws.
TaskSync(f) ==
  LET id == task.authProviders[task.next]
      teamId == AuthenticationProviders[id]
  IN  /\ task.pc = "sync"
      /\ task.next <= Len(task.authProviders)
      /\ loopGoesOn(pc)
      /\ Start(teamId, id, task.syncUsers, Null, Null, f)
      /\ task' = [task EXCEPT !.next = @ + 1,
                              !.events = Append(@, Event("userSyncer",
                                                         teamId, id))]
      /\ UNCHANGED <<idp, now, kc, lastCall>>

\* The loop is over: "OIDC user sync task completed".
TaskCompleted ==
  /\ task.pc = "sync"
  /\ task.next > Len(task.authProviders)
  /\ loopGoesOn(pc)
  /\ ended("completed")
  /\ UNCHANGED <<engineVars, idp, now, kc, lastCall>>

\* The users of the realm: kc1 and kc2 have an email, kc3 has none, kc0 is
\* disabled.  kc1 is g1 "N" and kc2 is g2 "Ann Lee" to the engine.
Kc0 == KeycloakUser("g0", "zed", <<"z">>, Null, Null, FALSE)
Kc1 == KeycloakUser("g1", "n", <<"a">>, "N", Null, TRUE)
Kc2 == KeycloakUser("g2", "ann", <<"b">>, "Ann", "Lee", TRUE)
Kc3 == KeycloakUser("g3", "kim", <<>>, Null, "Kim", TRUE)

Realms ==
  { <<>>, <<Kc0>>, <<Kc1>>, <<Kc3>>, <<Kc0, Kc1>>, <<Kc1, Kc2>>, <<Kc3, Kc1>>,
    <<Kc1, Kc2, Kc3>>, <<Kc2, Kc3, Kc1>> }

\* The settings of a deployment: complete (with the sync client's own id or
\* the login client's), switched off, or lacking the URL, the realm or the
\* secret.
Envs ==
  { Env(TRUE, "https://kc", "main", "sync", "ss", Null, Null),
    Env(TRUE, "https://kc", "main", Null, Null, "login", "s"),
    Env(FALSE, "https://kc", "main", "sync", "ss", Null, Null),
    Env(TRUE, Null, "main", "sync", "ss", Null, Null),
    Env(TRUE, "https://kc", Null, "sync", "ss", Null, Null),
    Env(TRUE, "https://kc", "main", "sync", Null, Null, Null) }

\* What findAll returns for the partition of this replica.
OwnedProviders == {<<>>, <<"P1">>, <<"P1", "P2">>, <<"P2", "P1">>}

\* The answers of the IdP during a tick: the token endpoint is unreachable,
\* refuses the client or grants a token; the admin endpoint is unreachable,
\* answers, or fails.
TaskTokenResponses ==
  { tok \in TokenResponses :
      tok.status /= 200 \/ (tok.access_token = "t1" /\ tok.expires_in = 120) }

TaskAdminStatuses == {TransportFailure, 200, 500}

\* The cron tick.
PerformTick == \E env \in Envs, owned \in OwnedProviders : Perform(env, owned)

ConnectionTest ==
  \E tok \in TaskTokenResponses, status \in TaskAdminStatuses :
    TaskTestConnection(tok, status)

FetchPage ==
  \E tok \in TaskTokenResponses, status \in TaskAdminStatuses :
    TaskFetchPage(tok, status)

\* An admin of the realm deletes a user while the listing is under way.
RealmChange ==
  /\ task.pc = "fetch"
  /\ task.first > 0
  /\ \E k \in 1..Len(idp) :
       idp' = SubSeq(idp, 1, k - 1) \o SubSeq(idp, k + 1, Len(idp))
  /\ UNCHANGED <<engineVars, now, kc, lastCall, task>>

SyncProvider == \E f \in 0..MaxOps : TaskSync(f)

InitD ==
  /\ \E d \in InitDirectories : users = d.users /\ auths = d.auths
  /\ groupUsers = <<>>
  /\ pc = "idle"
  /\ call = NoCall
  /\ run = NoRun
  /\ result = UserSyncerResult
  /\ pre = [users |-> users, auths |-> auths, groupUsers |-> groupUsers]
  /\ prev = NoPrev
  /\ last = NoStep
  /\ calls = 0
  /\ failures = 0
  /\ idp \in Realms
  /\ now = 0
  /\ kc = NoToken
  /\ lastCall = NoClientCall
  /\ task = NoTask

NextD ==
  \/ PerformTick
  \/ ConnectionTest
  \/ FetchPage
  \/ RealmChange
  \/ SyncProvider
  \/ ExistingAuthF
  \/ ProviderUserF
  \/ Finish
  \/ TaskCompleted

SpecD == InitD /\ [][NextD]_vars

\* ------------------------------------------------------------------- C23

\* The positions in task.events of the calls of `op`.
EventsOf(op) == {i \in 1..Len(task.events) : task.events[i].op = op}

\* The tick returned before the loop over the providers.
EndedEarly == task.pc = "ended" /\ task.reason /= "completed"

\* A reason to end the tick early holds: the settings, the owned providers,
\* the client, the connection test, the fetch or the number of users fetched.
EarlyEndCause ==
  \/ ~task.env.OIDC_SYNC_ENABLED
  \/ task.env.OIDC_SYNC_ADMIN_URL = Null
  \/ task.env.OIDC_SYNC_REALM = Null
  \/ task.authProviders = <<>>
  \/ task.env.OIDC_SYNC_CLIENT_SECRET = Null
       /\ task.env.OIDC_CLIENT_SECRET = Null
  \/ task.env.OIDC_SYNC_CLIENT_ID = Null /\ task.env.OIDC_CLIENT_ID = Null
  \/ lastCall.op = "testConnection" /\ lastCall.value = <<FALSE>>
  \/ lastCall.op = "getUsers" /\ lastCall.error /= Null
  \/ task.pc \in {"sync", "ended"} /\ lastCall.op = "getUsers"
       /\ lastCall.error = Null /\ task.allUsers = <<>>

\* The engine was invoked for no binding and the directory is as the tick
\* found it.
EngineUntouched ==
  /\ calls = 0
  /\ pc = "idle"
  /\ EventsOf("userSyncer") = {}
  /\ users = pre.users /\ auths = pre.auths /\ groupUsers = pre.groupUsers

\* C23: a tick that has a reason to end early ends before the loop over the
\* providers; a tick that ended early invoked the engine for no binding and
\* changed nothing in the directory; every fetch comes after a connection
\* test, and every call of the engine after a fetch of the tick.
C23_EarlyEndTouchesNothing ==
  /\ (task.pc /= "idle" /\ EarlyEndCause) => EndedEarly
  /\ EndedEarly => EngineUntouched
  /\ \A i \in EventsOf("getUsers") :
       \E j \in EventsOf("testConnection") : j < i
  /\ \A i \in EventsOf("userSyncer") : \E j \in EventsOf("getUsers") : j < i
  /\ calls = Cardinality(EventsOf("userSyncer"))

\* The second page of the listing failed in a team with linked users: the
\* tick ended with one page in hand.
C23_Witness ==
  /\ EndedEarly
  /\ task.reason = "fetch failed"
  /\ Len(task.allUsers) > 0
  /\ \E k \in 1..Len(auths) : auths[k].authenticationProviderId = "P1"
  /\ task.authProviders /= <<>>

\* ------------------------------------------------------------------- C24

\* The list the tick holds has every enabled user of the realm.
SnapshotComplete ==
  \A k \in 1..Len(enabledUsers(idp)) :
    \E j \in 1..Len(task.allUsers) :
      task.allUsers[j].id = enabledUsers(idp)[k].id

\* C24: the engine is invoked only with a complete snapshot: a tick that
\* called the engine holds every enabled user of the realm.
C24_SnapshotComplete == EventsOf("userSyncer") /= {} => SnapshotComplete

\* ------------------------------------------------------------------- C25

\* The calls of the engine the tick made, in order.
EngineCalls == SelectSeq(task.events, LAMBDA e : e.op = "userSyncer")

\* C25: the tick calls the engine for its owned providers in their order,
\* each time with the list it converted; after a call that threw or reported
\* errors the call for the next provider can be made, and the tick completes
\* only when every owned provider had its call.
C25_FailureDoesNotStopTheLoop ==
  /\ Len(EngineCalls) = task.next - 1
  /\ \A k \in 1..Len(EngineCalls) :
       EngineCalls[k] =
         Event("userSyncer", AuthenticationProviders[task.authProviders[k]],
               task.authProviders[k])
  /\ calls > 0 =>
       /\ call.users = task.syncUsers
       /\ call.authenticationProviderId = task.authProviders[calls]
       /\ call.teamId = AuthenticationProviders[task.authProviders[calls]]
  /\ calls > 1 => prev.call.users = call.users
  /\ (task.pc = "sync" /\ pc /= "running"
        /\ task.next <= Len(task.authProviders)) => ENABLED SyncProvider
  /\ task.reason = "completed" => task.next = Len(task.authProviders) + 1

\* The call for the first of two providers threw and the call for the second
\* was made and changed the directory.
C25_Witness ==
  /\ task.reason = "completed"
  /\ Len(task.authProviders) = 2
  /\ calls = 2
  /\ ~prev.valid
  /\ pc = "done"
  /\ result.created + result.suspended > 0

\* ------------------------------------------------------------------- C26

\* The tick converted the list it fetched.
Converted == task.pc = "sync" \/ task.reason = "completed"

\* The error entry, a sequence of text parts, names the record.
Names(entry, id) == \E part \in 1..Len(entry) : entry[part] = id

\* C26: the converted list has no record without an email and exactly one
\* SyncUser, with the record's id as providerId, for each record with one;
\* each dropped record has an error entry that names it.
C26_DroppedWithErrorEntry ==
  Converted =>
    \A k \in 1..Len(task.allUsers) :
      LET u == task.allUsers[k]
          converted == {j \in 1..Len(task.syncUsers) :
                          task.syncUsers[j].providerId = u.id}
          errors == toSyncErrors(task.allUsers)
      IN  IF u.email = <<>>
          THEN /\ converted = {}
               /\ \E e \in 1..Len(errors) : Names(errors[e], u.id)
          ELSE /\ Cardinality(converted) = 1
               /\ \A j \in converted : task.syncUsers[j].email = u.email

\* ------------------------------------------------------------------- C27

\* The last call of the client had a token, cached or granted, and its admin
\* request was answered with a 2xx status.
ProbeSucceeded ==
  /\ lastCall.token.status = NotRequested
       \/ lastCall.token.status \in 200..299
  /\ lastCall.admin \in 200..299

\* C27: testConnection raises nothing; it returns true when the token and
\* the count request succeeded and false when either failed.
C27_TestConnectionIsBoolean ==
  lastCall.op = "testConnection" =>
    /\ lastCall.error = Null
    /\ lastCall.value = <<ProbeSucceeded>>

\* The count request of a connection test was refused with the cached token.
C27_Witness ==
  /\ lastCall.op = "testConnection"
  /\ lastCall.token.status = NotRequested
  /\ lastCall.admin = 403
  /\ lastCall.value = <<FALSE>>

\* ------------------------------------------------------------------- C28

\* What getAdminToken left in the cache during the last call.
TokenAfterGrant ==
  IF lastCall.token.status \in 200..299
  THEN [accessToken |-> lastCall.token.access_token,
        tokenExpiresAt |-> lastCall.now + lastCall.token.expires_in]
  ELSE lastCall.before

\* The admin request of the last call was answered 401 or 403.
Refused == lastCall.admin \in {401, 403}

\* C28: a call whose admin request is answered 401 or 403 leaves the client
\* without token and expiry and raises an authentication error; the call
\* after it requests a token, and makes its admin request only with the token
\* granted; a call whose admin request is made and not answered 401 or 403
\* leaves the cache as getAdminToken left it.
C28_RefusalClearsToken ==
  [][lastCall'.n = lastCall.n + 1 =>
       /\ Refused' =>
            /\ kc' = NoToken
            /\ lastCall'.op = "getUserCount" =>
                 lastCall'.error = "AuthenticationError"
       /\ Refused =>
            /\ lastCall'.before = NoToken
            /\ lastCall'.token.status /= NotRequested
            /\ lastCall'.admin /= NotRequested =>
                 lastCall'.token.status \in 200..299
       /\ (lastCall'.admin /= NotRequested /\ ~Refused') =>
            kc' = TokenAfterGrant']_vars

\* The cached token was used, the answer was 403 and the cache is empty.
C28_Witness ==
  /\ lastCall.op = "getUserCount"
  /\ lastCall.before /= NoToken
  /\ lastCall.token.status = NotRequested
  /\ lastCall.admin = 403
  /\ kc = NoToken

\* ------------------------------------------------------------------- C29

\* The cache of the client held, when the last call began, a token that
\* expires more than 60 seconds later.
HadFreshToken ==
  /\ lastCall.before.accessToken /= Null
  /\ lastCall.before.tokenExpiresAt /= NoDate
  /\ lastCall.before.tokenExpiresAt > lastCall.now + 60

\* C29: a call reuses the cached token exactly when the token expires more
\* than 60 seconds after the call; otherwise it requests a token and, when
\* one is granted, caches it with the expiry now + expires_in (until an admin
\* answer of 401 or 403 clears the cache); a token request that fails leaves
\* the cache as it was.
C29_TokenReuse ==
  lastCall.n > 0 =>
    /\ lastCall.token.status = NotRequested <=> HadFreshToken
    /\ (~HadFreshToken /\ lastCall.token.status \in 200..299 /\ ~Refused) =>
         /\ kc.accessToken = lastCall.token.access_token
         /\ kc.tokenExpiresAt = lastCall.now + lastCall.token.expires_in
    /\ (~HadFreshToken /\ lastCall.token.status \notin 200..299) =>
         /\ kc = lastCall.before
         /\ lastCall.admin = NotRequested

\* A token that expires exactly 60 seconds after the call was replaced by a
\* new one.
C29_Witness ==
  /\ lastCall.before.accessToken = "t1"
  /\ lastCall.before.tokenExpiresAt = lastCall.now + 60
  /\ lastCall.token.status = 200
  /\ kc.accessToken = "t2"
  /\ kc.tokenExpiresAt = lastCall.now + lastCall.token.expires_in

\* ------------------------------------------------------------------- C30

\* The status of the request that made the last call fail: the token
\* request, or the admin request made with the token.
FailedStatus ==
  IF lastCall.admin /= NotRequested THEN lastCall.admin
  ELSE lastCall.token.status

\* C30: a call of getUserCount that fails raises an authentication error
\* exactly when the failing request was answered 401 or 403, and a request
\* error when it was not answered or answered with another non-2xx status.
C30_TypedByStatus ==
  (lastCall.op = "getUserCount" /\ ~ProbeSucceeded) =>
    lastCall.error = IF FailedStatus \in {401, 403}
                     THEN "AuthenticationError"
                     ELSE "InvalidRequestError"

\* ------------------------------------------------ getAllUsers alone: SpecP

\* The safety limit of getAllUsers (100000) and the batch sizes a caller
\* passes, scaled: 1 and 2 divide the limit, 3 does not.
PagingLimit == 4
MaxBatchSize == 3

\* The j-th record of the batch the server returns for the offset `first`.
Digits == <<"0", "1", "2", "3", "4", "5", "6", "7", "8", "9">>

ServerUser(first, j) ==
  KeycloakUser(Digits[first + 1] \o "." \o Digits[j + 1], "u", <<"a">>,
               Null, Null, TRUE)

\* A caller calls getAllUsers(batchSize, true) on a new client.
GetAllUsers ==
  /\ task.pc = "idle"
  /\ \E batchSize \in 1..MaxBatchSize :
       task' = [task EXCEPT !.pc = "getAllUsers", !.batchSize = batchSize]
  /\ UNCHANGED <<engineVars, idp, now, kc, lastCall>>

\* One iteration of the loop of getAllUsers: the server answers the page
\* request with a batch of any length, shorter, equal to or longer than asked.
GetUsersBatch ==
  /\ task.pc = "getAllUsers"
  /\ \E tok \in TaskTokenResponses, status \in TaskAdminStatuses,
        n \in 0..(task.batchSize + 1) :
       LET r == adminRequest(kc, now, tok, status)
           batch == [j \in 1..n |-> ServerUser(task.first, j)]
           g == getAllUsersNext(task.batchSize, PagingLimit, task.first,
                                task.allUsers, batch)
       IN  /\ kc' = r.client
           /\ lastCall' = ClientCall("getUsers", r, <<>>)
           /\ IF r.error /= Null
              THEN task' = [task EXCEPT
                              !.pc = "ended", !.reason = "threw",
                              !.requests =
                                Append(@, Request(task.first, task.batchSize,
                                                  <<>>))]
              ELSE task' = [task EXCEPT
                              !.pc = IF g.stop THEN "ended" ELSE @,
                              !.reason = IF g.stop THEN "returned" ELSE @,
                              !.first = g.first,
                              !.allUsers = g.allUsers,
                              !.requests =
                                Append(@, Request(task.first, task.batchSize,
                                                  batch))]
  /\ UNCHANGED <<engineVars, idp, now>>

InitP == InitK

NextP ==
  \/ GetAllUsers
  \/ GetUsersBatch

\* The loop is not suspended for ever: every await of it resolves or rejects.
SpecP == InitP /\ [][NextP]_vars /\ WF_vars(GetUsersBatch)

\* ------------------------------------------------------------------- C31

\* The batches of the first n page requests, one after the other.
RECURSIVE Received(_)
Received(n) ==
  IF n = 0 THEN <<>> ELSE Received(n - 1) \o task.requests[n].returned

\* getAllUsers is running or has ended.
Paging == task.batchSize > 0

\* While getAllUsers runs and when it has ended, its k-th request asked for
\* the offset (k - 1) * batchSize and for batchSize users, every batch before
\* the last had at least batchSize users, a batch shorter than batchSize is
\* the last, and the list is the batches in the order of the requests.
PagingInOrder ==
  Paging =>
    /\ \A k \in 1..Len(task.requests) :
         /\ task.requests[k].first = (k - 1) * task.batchSize
         /\ task.requests[k].max = task.batchSize
         /\ k < Len(task.requests) =>
              Len(task.requests[k].returned) >= task.batchSize
    /\ task.pc = "getAllUsers" =>
         \A k \in 1..Len(task.requests) :
           Len(task.requests[k].returned) >= task.batchSize
    /\ task.reason /= "threw" =>
         task.allUsers = Received(Len(task.requests))

\* C31: getAllUsers asks for the offsets 0, batchSize, 2 * batchSize, ... in
\* this order, stops at the first batch shorter than batchSize, returns the
\* batches received in the order of the requests, and ends whatever the
\* server returns.
C31_PagingTerminates == []PagingInOrder /\ (Paging ~> task.pc = "ended")

\* getAllUsers(2) returned after a full batch and a short one.
C31_Witness ==
  /\ task.pc = "ended"
  /\ task.reason = "returned"
  /\ task.batchSize = 2
  /\ Len(task.requests) = 2
  /\ Len(task.requests[2].returned) = 1
  /\ Len(task.allUsers) = 3

\* ------------------------------------------------------------------- C32

\* The server never returned more than it was asked for.
ServerRespectsMax ==
  \A k \in 1..Len(task.requests) :
    Len(task.requests[k].returned) <= task.batchSize

\* C32: for a batch size that divides the limit, getAllUsers makes no page
\* request at or beyond the limit and holds at most `limit` records.
C32_HardStopAtLimit ==
  (Paging /\ PagingLimit % task.batchSize = 0 /\ ServerRespectsMax) =>
    /\ \A k \in 1..Len(task.requests) : task.requests[k].first < PagingLimit
    /\ Len(task.allUsers) <= PagingLimit

\* ------------------------------- emails with pattern characters: SpecW

\* Snapshot entries whose email has "_" or "%", next to entries that differ
\* from a stored email in case only or not at all.
WildcardSyncUsers ==
  { SyncUser("g1", <<"a", "_">>, "N", <<>>),
    SyncUser("g2", <<"%">>, "N", <<>>),
    SyncUser("g1", <<"A", "B">>, "N", <<>>),
    SyncUser("g2", <<"a", "b">>, "N", <<>>),
    SyncUser("g2", <<"b", "a">>, "M", <<>>) }

\* Team T1 has the user "ab", invited or linked as g1, alone or with the user
\* "a_", and team T2 has a user "ab" of its own.
WildcardDirectories ==
  { [users |-> <<User(1, "T1", <<"a", "b">>, "N", <<>>, "member", Null, Null,
                      Null)>>
               \o (IF two
                   THEN <<User(2, "T1", <<"a", "_">>, "N", <<>>, "member",
                               Null, Null, Null)>>
                   ELSE <<>>)
               \o <<User(IF two THEN 3 ELSE 2, "T2", <<"a", "b">>, "N", <<>>,
                         "member", Null, Null, "seen")>>,
     auths |-> IF linked1 THEN <<UserAuthentication("g1", "P1", 1)>>
               ELSE <<>>] :
      two \in BOOLEAN, linked1 \in BOOLEAN }

InitW ==
  /\ \E d \in WildcardDirectories : users = d.users /\ auths = d.auths
  /\ groupUsers = <<>>
  /\ pc = "idle"
  /\ call = NoCall
  /\ run = NoRun
  /\ result = UserSyncerResult
  /\ pre = [users |-> users, auths |-> auths, groupUsers |-> groupUsers]
  /\ prev = NoPrev
  /\ last = NoStep
  /\ calls = 0
  /\ failures = 0
  /\ NoDriver

\* A caller invokes reconcile for the binding (T1, P1).
ReconcileW ==
  /\ \E snapshot \in SeqsUpTo(WildcardSyncUsers, MaxSnapshot) :
       Start("T1", "P1", snapshot, Null, Null, 0)
  /\ UNCHANGED driverVars

NextW ==
  \/ ReconcileW
  \/ ExistingAuth
  \/ ProviderUser
  \/ Finish

SpecW == InitW /\ [][NextW]_vars

\* ------------------------------------------------------------------- C33

\* C33: phase 2 links an entry only to a user whose email, lower-cased, is
\* the entry's email lower-cased: the user a link step found and gave an
\* authentication to had that email before the step.
C33_LinkOnlyEqualEmail ==
  (last.kind = "link" /\ last.f = 0) =>
    toLowerCase(last.user.email) = toLowerCase(last.providerUser.email)

\* ------------------------------------------------------------------- C34

\* The latest step handled a user that exists, by its authentication in
\* phase 1 or by its email in phase 2.
ExistingUserStep == last.kind \in {"match", "link"}

\* C34: when a store write fails in a step for an existing user, the step
\* leaves no trace in the tables: the user's attributes and suspension and
\* the authentications are what they were before the step.
C34_PerUserAtomic ==
  (ExistingUserStep /\ last.f > 0) =>
    /\ users = last.users
    /\ auths = last.auths

\* ------------------------------------------- an abandoned call: SpecC

\* The user tables phase 1 can leave, whatever the order of the rows of
\* findAll: `loaded` are the rows with the instances read at the start, `todo`
\* the rows still to handle.
RECURSIVE phase1Outcomes(_, _, _, _)
phase1Outcomes(userRows, loaded, todo, snapshot) ==
  IF todo = {} THEN {userRows}
  ELSE UNION { phase1Outcomes(processExisting(userRows, UserSyncerResult,
                                              snapshot, loaded[k], 0).users,
                              loaded, todo \ {k}, snapshot) : k \in todo }

\* The tables phase 2 can leave from the tables d, handling the entries from
\* the j-th on, whichever row findOne returns.
RECURSIVE phase2Outcomes(_, _, _, _, _)
phase2Outcomes(d, processedProviderIds, c, defaultGroup, j) ==
  IF j > Len(c.users) THEN {d}
  ELSE LET providerUser == c.users[j]
           found == findUsersByEmail(d.users, c.teamId, providerUser.email)
           new == createNew(d.users, d.auths, d.groupUsers, UserSyncerResult,
                            providerUser, c.teamId,
                            c.authenticationProviderId, defaultGroup, 0)
       IN  IF \/ hasProcessed(processedProviderIds, providerUser.providerId)
              \/ ~NonEmpty(providerUser.email)
           THEN phase2Outcomes(d, processedProviderIds, c, defaultGroup, j + 1)
           ELSE IF found = {}
           THEN phase2Outcomes([users |-> new.users, auths |-> new.auths,
                                groupUsers |-> new.groupUsers],
                               processedProviderIds, c, defaultGroup, j + 1)
           ELSE UNION
                  { LET link == linkExisting(d.users, d.auths,
                                             UserSyncerResult, d.users[pick],
                                             providerUser,
                                             c.authenticationProviderId, 0)
                    IN  phase2Outcomes([users |-> link.users,
                                        auths |-> link.auths,
                                        groupUsers |-> d.groupUsers],
                                       processedProviderIds, c, defaultGroup,
                                       j + 1) : pick \in found }

\* The tables one complete call c without store failures can leave from the
\* tables d: the two loops of userSyncer, one after the other.
userSyncerOutcomes(d, c) ==
  LET loaded == loadExistingAuths(d.auths, d.users, c.teamId,
                                  c.authenticationProviderId)
      processed == {loaded[k].providerId : k \in 1..Len(loaded)}
      defaultGroup == findDefaultGroup(c.teamId, c.defaultGroupId,
                                       c.defaultGroupName)
  IN  UNION { phase2Outcomes([users |-> userRows, auths |-> d.auths,
                              groupUsers |-> d.groupUsers],
                             processed, c, defaultGroup, 1) :
                userRows \in phase1Outcomes(d.users, loaded,
                                            1..Len(loaded), c.users) }

\* A caller invokes reconcile for the binding (T1, P1).
ReconcileC ==
  /\ calls = 0
  /\ \E snapshot \in Snapshots : Start("T1", "P1", snapshot, Null, Null, 0)
  /\ UNCHANGED driverVars

\* The caller abandons the call between two of its steps: no later step of
\* the call runs and no report is returned.
Abandon ==
  /\ pc = "running"
  /\ calls = 1
  /\ pc' = "abandoned"
  /\ UNCHANGED <<users, auths, groupUsers, call, run, result, pre, prev, last,
                 calls, failures>>
  /\ UNCHANGED driverVars

\* The next tick: the same call again.
ReconcileAgain ==
  /\ pc = "abandoned"
  /\ Start(call.teamId, call.authenticationProviderId, call.users,
           call.defaultGroupId, call.defaultGroupName, 0)
  /\ UNCHANGED driverVars

NextC ==
  \/ ReconcileC
  \/ Abandon
  \/ ReconcileAgain
  \/ ExistingAuth
  \/ ProviderUser
  \/ Finish

SpecC == Init /\ [][NextC]_vars

\* ------------------------------------------------------------------- C35

\* The call that has returned repeats a call that was abandoned.
ReturnedAfterAbandon ==
  /\ pc = "done"
  /\ calls = 2
  /\ ~prev.valid
  /\ prev.call = call

\* C35: when a call is abandoned after some of its steps and the same call
\* is then made again and returns, the users, the authentications and the
\* group memberships are tables that one uninterrupted call could have left
\* from the tables the abandoned call started with.
C35_ConvergesAfterAbandon ==
  ReturnedAfterAbandon =>
    [users |-> users, auths |-> auths, groupUsers |-> groupUsers]
      \in userSyncerOutcomes(prev.pre, call)

\* ------------------------------------------------ default groups: SpecG

\* The defaultGroupId and defaultGroupName of a call: none, the id of a group
\* of the team (G1), of another team (G2) or of no group (G9), the name of a
\* group of the team ("staff" is G1, "ops" is G3) or of none.
DefaultGroupArguments ==
  { <<Null, Null>>, <<"G1", Null>>, <<"G1", "ops">>, <<"G2", "staff">>,
    <<"G9", "staff">>, <<Null, "staff">>, <<Null, "ops">>, <<Null, "none">> }

\* One reconcile call for the binding (T1, P1) with a default group given by
\* id, by name, by both or not at all; operation f of the call fails (0:
\* none).
ReconcileG ==
  /\ calls = 0
  /\ \E snapshot \in Snapshots, g \in DefaultGroupArguments, f \in 0..MaxOps :
       Start("T1", "P1", snapshot, g[1], g[2], f)
  /\ UNCHANGED driverVars

NextG ==
  \/ ReconcileG
  \/ ExistingAuthF
  \/ ProviderUserF
  \/ Finish

SpecG == Init /\ [][NextG]_vars

\* ------------------------------------------------------------------- C36

\* The group the arguments of the call name: the group with the given id in
\* the team when an id is given, else the group with the given name in the
\* team; Null when there is none.
NamedGroup ==
  LET byId == {g \in DOMAIN Groups :
                 g = call.defaultGroupId /\ Groups[g].teamId = call.teamId}
      byName == {g \in DOMAIN Groups :
                   /\ Groups[g].name = call.defaultGroupName
                   /\ Groups[g].teamId = call.teamId}
      one(S) == IF S = {} THEN Null ELSE CHOOSE g \in S : TRUE
  IN  IF call.defaultGroupId /= Null THEN one(byId)
      ELSE IF call.defaultGroupName /= Null THEN one(byName)
      ELSE Null

\* The call passed its checks: its loops run or have run.
InLoops == pc \in {"running", "done"} /\ run /= NoRun

\* The memberships of user id in the group g.
Memberships(id, g) ==
  {k \in 1..Len(groupUsers) :
     groupUsers[k].userId = id /\ groupUsers[k].groupId = g}

\* C36: the call resolves its default group by id when an id is given and by
\* name only when none is; with a group, every user the call created has
\* exactly one membership of it, with permission Member, and addedToGroup =
\* created; without one, the call runs with addedToGroup = 0, adds no
\* membership and starts its loops with no error; memberships are added only
\* for users the call created.
C36_DefaultGroup ==
  InLoops =>
    /\ run.defaultGroup = NamedGroup
    /\ \A k \in (Len(pre.groupUsers) + 1)..Len(groupUsers) :
         /\ groupUsers[k].userId > Len(pre.users)
         /\ groupUsers[k].groupId = NamedGroup
         /\ groupUsers[k].permission = "member"
    /\ NamedGroup /= Null =>
         /\ \A id \in (Len(pre.users) + 1)..Len(users) :
              Cardinality(Memberships(id, NamedGroup)) = 1
         /\ result.addedToGroup = result.created
    /\ NamedGroup = Null =>
         /\ result.addedToGroup = 0
         /\ groupUsers = pre.groupUsers
         /\ last.kind = "none" => result = UserSyncerResult

\* ------------------------------------------------------------------- C38

\* C38: the counters of the report are the changes the call committed:
\* created is the number of User rows the call added, addedToGroup the number
\* of GroupUser rows it added, and a step that failed after counting an
\* update, whose write was rolled back, has not counted it.
C38_CountersAreCommitted ==
  InLoops =>
    /\ result.created = Len(users) - Len(pre.users)
    /\ result.addedToGroup = Len(groupUsers) - Len(pre.groupUsers)
    /\ (last.kind = "link" /\ last.f > 0 /\ users = last.users) =>
         result.updated = last.result.updated

\* ------------------------------------------------------------------- C37

\* The call the task made for the current provider has returned.
TickCallReturned ==
  /\ task.pc \in {"sync", "ended"}
  /\ pc = "done"
  /\ call /= NoCall

\* C37: when the provider of a binding has settings.syncDefaultGroupId set to
\* a group of its team, every user a scheduled tick created for the binding
\* is a member of that group once the tick's call for the binding is over.
C37_TickAddsToSettingsGroup ==
  TickCallReturned =>
    LET g == ProviderSettings[call.authenticationProviderId].syncDefaultGroupId
    IN  (g /= Null /\ Groups[g].teamId = call.teamId) =>
          \A id \in (Len(pre.users) + 1)..Len(users) :
            Memberships(id, g) /= {}

\* ------------------------------------------------ any binding: SpecX

\* The pairs of a team and a provider that both exist: the provider belongs
\* to the team in (T1, P1) and (T2, P2) and to the other team in (T1, P2) and
\* (T2, P1).
ExistingPairs == {<<t, p>> : t \in TeamIds, p \in AuthProviderIds}

\* One reconcile call for an existing team and an existing provider; no store
\* operation fails.
ReconcileX ==
  /\ calls = 0
  /\ \E b \in ExistingPairs, snapshot \in Snapshots :
       Start(b[1], b[2], snapshot, Null, Null, 0)
  /\ UNCHANGED driverVars

NextX ==
  \/ ReconcileX
  \/ ExistingAuth
  \/ ProviderUser
  \/ Finish

SpecX == Init /\ [][NextX]_vars

\* ------------------------------------------------------------------- C39

\* The provider of the call exists and belongs to another team than teamId.
ForeignProvider ==
  /\ call.authenticationProviderId \in AuthProviderIds
  /\ call.teamId \in TeamIds
  /\ AuthenticationProviders[call.authenticationProviderId] /= call.teamId

\* C39: every UserAuthentication row a call creates joins a user of the
\* call's team to a provider of that same team, and a call whose provider
\* belongs to another team than its teamId changes no table.
C39_OnlyInsideOneBinding ==
  /\ \A k \in (Len(pre.auths) + 1)..Len(auths) :
       /\ users[auths[k].userId].teamId = call.teamId
       /\ AuthenticationProviders[auths[k].authenticationProviderId]
            = call.teamId
  /\ ForeignProvider =>
       /\ users = pre.users
       /\ auths = pre.auths
       /\ groupUsers = pre.groupUsers

\* ------------------------------------------------------------------- C40

\* The users of the call's team that, when the call started, had no
\* authentication of the call's provider and an email equal, case aside, to
\* that of no snapshot entry.
Bystanders ==
  {id \in 1..Len(pre.users) :
     /\ pre.users[id].teamId = call.teamId
     /\ \A k \in 1..Len(pre.auths) :
          pre.auths[k].userId = id =>
            pre.auths[k].authenticationProviderId
              /= call.authenticationProviderId
     /\ \A j \in 1..Len(call.users) :
          toLowerCase(pre.users[id].email)
            /= toLowerCase(call.users[j].email)}

\* The attributes of a user that reconcile may write.
Synced(u) ==
  [name |-> u.name, email |-> u.email, avatarUrl |-> u.avatarUrl,
   role |-> u.role, suspendedAt |-> u.suspendedAt]

\* Some call is under way or has returned.
Called == pc \in {"running", "done", "threw", "abandoned"} /\ call /= NoCall

\* C40: a user of the team without an authentication of the reconciled
\* provider and whose email matches no snapshot entry, case aside, keeps its
\* name, email, avatarUrl, role and suspendedAt through every call.  (No step
\* of a call assigns to the snapshot list: call.users is set by Start only.)
C40_BystandersUntouched ==
  Called =>
    \A id \in Bystanders : Synced(users[id]) = Synced(pre.users[id])

====
